---- MODULE Spec2Model ----
(***************************************************************************)
(* A model of the TMS shipment dashboard (src/app.py): column inference,   *)
(* region extraction, the delivery, area and loading analyses, and the     *)
(* script run with load_data's cache.                                      *)
(*                                                                         *)
(* A string is the sequence of its Unicode code points, so that substring  *)
(* search, lower-casing, stripping, replacement and slicing are computed   *)
(* as Python computes them.  The comment beside a literal gives its text.  *)
(***************************************************************************)
EXTENDS Integers, Sequences, FiniteSets, TLC

VARIABLES
    pc,                 \* "start" before the operation under study, "done" after
    df_cols,            \* smart_column_detector: the header list
    column_mapping,     \* smart_column_detector: the returned dict
    address,            \* enhanced_city_extraction: the argument
    city,               \* enhanced_city_extraction: the returned value
    df,                 \* the analyses' table: [columns, rows]
    col_map,            \* the analyses' column mapping
    exclude_swi_mask,   \* the analyses' exclusion mask, one boolean per row
    shipment_out,       \* what enhanced_shipment_analysis computed and showed
    delivery_out,       \* what enhanced_delivery_performance computed and showed
    area_out,           \* what enhanced_area_analysis computed and showed
    loading_out,        \* what enhanced_loading_analysis computed and showed
    excel_available,    \* EXCEL_AVAILABLE: whether openpyxl could be imported
    uploaded_file,      \* the file uploader's value in the last script run
    load_cache,         \* the entries st.cache_data keeps for load_data
    loaded_from,        \* last run: load_data's body ran ("file") or not ("cache")
    main_status,        \* where the last run of main returned
    load_call,          \* the last call of load_data: its arguments and its outcome
    date_series,        \* safe_datetime_convert: the argument
    date_result,        \* safe_datetime_convert: the returned series
    user_mapping,       \* main: what display_column_mapping_interface returned
    final_column_mapping  \* main: the mapping the data-analysis tab uses

detVars  == <<df_cols, column_mapping>>
cityVars == <<address, city>>
inVars   == <<df, col_map, exclude_swi_mask>>
outVars  == <<shipment_out, delivery_out, area_out, loading_out>>
mainVars == <<excel_available, uploaded_file, load_cache, loaded_from, main_status, load_call>>
dateVars == <<date_series, date_result>>
tabVars  == <<user_mapping, final_column_mapping>>
vars     == <<pc, detVars, cityVars, inVars, outVars, mainVars, dateVars, tabVars>>

(***************************************************************************)
(* Bounds of the model.                                                    *)
(***************************************************************************)
MaxCols == 2        \* headers in a header list
MaxAddrParts == 3   \* fragments an address is built from
MaxRows == 2        \* rows of an analysed table
MaxSeries == 3      \* values of a converted date column
MaxTypeRows == 3    \* rows of a table counted by shipment type
MaxManual == 1      \* select boxes of the column-settings tab the user has changed

(***************************************************************************)
(* Python values.                                                          *)
(***************************************************************************)
\* None, where a string is expected: no string holds the code point -1.
None == <<-1>>

\* chr.lower() on the characters that occur in headers and keywords: the
\* ASCII capitals map to their small letters, CJK and punctuation are caseless.
Lower(c) == IF c \in 65..90 THEN c + 32 ELSE c

\* str.lower()
LowerStr(s) == [i \in 1..Len(s) |-> Lower(s[i])]

\* sub in s
Contains(sub, s) ==
    \E i \in 0..(Len(s) - Len(sub)) : \A j \in 1..Len(sub) : s[i + j] = sub[j]

Min(S) == CHOOSE x \in S : \A y \in S : x <= y

(***************************************************************************)
(* smart_column_detector                                                   *)
(***************************************************************************)
Roles ==
    << "ship_type", "due_date", "sign_date", "cust_id", "cust_name", "address",
       "copper_ton", "qty", "ship_no", "do_no", "item_desc", "lot_no",
       "fg_net_ton", "fg_gross_ton", "status" >>

RoleSet == {Roles[i] : i \in 1..Len(Roles)}

\* The first argument of each find_best_match call.
Keywords ==
    [ ship_type |-> <<   \* 出貨申請類型, 出貨類型, 配送類型, 類型, 申請類型
          <<20986, 36008, 30003, 35531, 39006, 22411>>,
          <<20986, 36008, 39006, 22411>>,
          <<37197, 36865, 39006, 22411>>,
          <<39006, 22411>>,
          <<30003, 35531, 39006, 22411>> >>,
      due_date |-> <<   \* 指定到貨日期, 到貨日期, 指定到貨, 到貨日, 預計到貨
          <<25351, 23450, 21040, 36008, 26085, 26399>>,
          <<21040, 36008, 26085, 26399>>,
          <<25351, 23450, 21040, 36008>>,
          <<21040, 36008, 26085>>,
          <<38928, 35336, 21040, 36008>> >>,
      sign_date |-> <<   \* 客戶簽收日期, 簽收日期, 簽收日, 簽收時間
          <<23458, 25142, 31805, 25910, 26085, 26399>>,
          <<31805, 25910, 26085, 26399>>,
          <<31805, 25910, 26085>>,
          <<31805, 25910, 26178, 38291>> >>,
      cust_id |-> <<   \* 客戶編號, 客戶代號, 客編, 客戶id
          <<23458, 25142, 32232, 34399>>,
          <<23458, 25142, 20195, 34399>>,
          <<23458, 32232>>,
          <<23458, 25142, 105, 100>> >>,
      cust_name |-> <<   \* 客戶名稱, 客名, 客戶, 客戶簡稱
          <<23458, 25142, 21517, 31281>>,
          <<23458, 21517>>,
          <<23458, 25142>>,
          <<23458, 25142, 31777, 31281>> >>,
      address |-> <<   \* 地址, 收貨地址, 送貨地址, 交貨地址, 配送地址
          <<22320, 22336>>,
          <<25910, 36008, 22320, 22336>>,
          <<36865, 36008, 22320, 22336>>,
          <<20132, 36008, 22320, 22336>>,
          <<37197, 36865, 22320, 22336>> >>,
      copper_ton |-> <<   \* 銅重量(噸), 銅重量(噸數), 銅噸, 銅重量, 銅重量（噸）
          <<37509, 37325, 37327, 40, 22136, 41>>,
          <<37509, 37325, 37327, 40, 22136, 25976, 41>>,
          <<37509, 22136>>,
          <<37509, 37325, 37327>>,
          <<37509, 37325, 37327, 65288, 22136, 65289>> >>,
      qty |-> <<   \* 出貨數量, 數量, 出貨量, 出庫數量
          <<20986, 36008, 25976, 37327>>,
          <<25976, 37327>>,
          <<20986, 36008, 37327>>,
          <<20986, 24235, 25976, 37327>> >>,
      ship_no |-> <<   \* 出庫單號, 出庫單, 出庫編號, 出貨單號
          <<20986, 24235, 21934, 34399>>,
          <<20986, 24235, 21934>>,
          <<20986, 24235, 32232, 34399>>,
          <<20986, 36008, 21934, 34399>> >>,
      do_no |-> <<   \* DO號, DO, 出貨單號, 交貨單號, do號
          <<68, 79, 34399>>,
          <<68, 79>>,
          <<20986, 36008, 21934, 34399>>,
          <<20132, 36008, 21934, 34399>>,
          <<100, 111, 34399>> >>,
      item_desc |-> <<   \* 料號說明, 品名, 品名規格, 物料說明, 產品名稱
          <<26009, 34399, 35498, 26126>>,
          <<21697, 21517>>,
          <<21697, 21517, 35215, 26684>>,
          <<29289, 26009, 35498, 26126>>,
          <<29986, 21697, 21517, 31281>> >>,
      lot_no |-> <<   \* 批次, 批號, Lot, lot, 批次號
          <<25209, 27425>>,
          <<25209, 34399>>,
          <<76, 111, 116>>,
          <<108, 111, 116>>,
          <<25209, 27425, 34399>> >>,
      fg_net_ton |-> <<   \* 成品淨重(噸), 成品淨量(噸), 淨重(噸), 淨重
          <<25104, 21697, 28136, 37325, 40, 22136, 41>>,
          <<25104, 21697, 28136, 37327, 40, 22136, 41>>,
          <<28136, 37325, 40, 22136, 41>>,
          <<28136, 37325>> >>,
      fg_gross_ton |-> <<   \* 成品毛重(噸), 成品毛量(噸), 毛重(噸), 毛重
          <<25104, 21697, 27611, 37325, 40, 22136, 41>>,
          <<25104, 21697, 27611, 37327, 40, 22136, 41>>,
          <<27611, 37325, 40, 22136, 41>>,
          <<27611, 37325>> >>,
      status |-> <<   \* 通知單項次狀態, 項次狀態, 狀態, 單據狀態
          <<36890, 30693, 21934, 38917, 27425, 29376, 24907>>,
          <<38917, 27425, 29376, 24907>>,
          <<29376, 24907>>,
          <<21934, 25818, 29376, 24907>> >> ]

\* The second argument of each find_best_match call.
PriorityKeywords ==
    [ ship_type |-> <<   \* 出貨申請類型, 出貨類型
          <<20986, 36008, 30003, 35531, 39006, 22411>>,
          <<20986, 36008, 39006, 22411>> >>,
      due_date |-> <<   \* 指定到貨日期
          <<25351, 23450, 21040, 36008, 26085, 26399>> >>,
      sign_date |-> <<   \* 客戶簽收日期
          <<23458, 25142, 31805, 25910, 26085, 26399>> >>,
      cust_id |-> <<   \* 客戶編號
          <<23458, 25142, 32232, 34399>> >>,
      cust_name |-> <<   \* 客戶名稱
          <<23458, 25142, 21517, 31281>> >>,
      address |-> <<   \* 地址
          <<22320, 22336>> >>,
      copper_ton |-> <<   \* 銅重量(噸), 銅重量（噸）
          <<37509, 37325, 37327, 40, 22136, 41>>,
          <<37509, 37325, 37327, 65288, 22136, 65289>> >>,
      qty |-> <<   \* 出貨數量
          <<20986, 36008, 25976, 37327>> >>,
      ship_no |-> <<   \* 出庫單號
          <<20986, 24235, 21934, 34399>> >>,
      do_no |-> <<   \* DO號
          <<68, 79, 34399>> >>,
      item_desc |-> <<   \* 料號說明, 品名
          <<26009, 34399, 35498, 26126>>,
          <<21697, 21517>> >>,
      lot_no |-> <<   \* 批次, 批號
          <<25209, 27425>>,
          <<25209, 34399>> >>,
      fg_net_ton |-> <<   \* 成品淨重(噸)
          <<25104, 21697, 28136, 37325, 40, 22136, 41>> >>,
      fg_gross_ton |-> <<   \* 成品毛重(噸)
          <<25104, 21697, 27611, 37325, 40, 22136, 41>> >>,
      status |-> <<   \* 通知單項次狀態
          <<36890, 30693, 21934, 38917, 27425, 29376, 24907>> >> ]


\* kw.lower() in str(col).lower()
KeywordHit(kw, col) == Contains(LowerStr(kw), LowerStr(col))

\* ScanKeywords returning the keyword that hit instead of the column.
ScanKeywords_ReturnKw(kws, cols) ==
    LET hitKw == {k \in 1..Len(kws) : \E c \in 1..Len(cols) : KeywordHit(kws[k], cols[c])}
    IN  IF hitKw = {} THEN None ELSE kws[Min(hitKw)]

\* The scan with the loops exchanged: for col in cols: for kw in kws.
ScanKeywords_HeaderFirst(kws, cols) ==
    LET hitCol == {c \in 1..Len(cols) : \E k \in 1..Len(kws) : KeywordHit(kws[k], cols[c])}
    IN  IF hitCol = {} THEN None ELSE cols[Min(hitCol)]

\* for kw in kws: for col in cols: if hit: return col -- else falls through (None)
ScanKeywords(kws, cols) ==
    LET hitKw == {k \in 1..Len(kws) : \E c \in 1..Len(cols) : KeywordHit(kws[k], cols[c])}
    IN  IF hitKw = {} THEN None
        ELSE LET k == Min(hitKw)
                 c == Min({c \in 1..Len(cols) : KeywordHit(kws[k], cols[c])})
             IN  cols[c]

\* find_best_match without its priority pass.
find_best_match_NoPriority(keywords, priority_keywords, cols) ==
    ScanKeywords(keywords, cols)

find_best_match(keywords, priority_keywords, cols) ==
    LET p == IF priority_keywords # <<>> THEN ScanKeywords(priority_keywords, cols)
             ELSE None
    IN  IF p # None THEN p ELSE ScanKeywords(keywords, cols)

smart_column_detector(cols) ==
    [r \in RoleSet |-> find_best_match(Keywords[r], PriorityKeywords[r], cols)]

(***************************************************************************)
(* enhanced_city_extraction                                                *)
(***************************************************************************)
TAI_ALT == 33274     \* 臺
TAI == 21488         \* 台
SHI == 24066         \* 市
XIAN == 32291        \* 縣
IDEO_SPACE == 12288  \* the ideographic space
SPACE == 32

\* 台北市 新北市 桃園市 台中市 台南市 高雄市 基隆市 新竹市 新竹縣 苗栗縣 彰化縣
\* 南投縣 雲林縣 嘉義市 嘉義縣 屏東縣 宜蘭縣 花蓮縣 台東縣 澎湖縣 金門縣 連江縣
taiwan_cities ==
    <<
      <<21488, 21271, 24066>>,
      <<26032, 21271, 24066>>,
      <<26691, 22290, 24066>>,
      <<21488, 20013, 24066>>,
      <<21488, 21335, 24066>>,
      <<39640, 38596, 24066>>,
      <<22522, 38534, 24066>>,
      <<26032, 31481, 24066>>,
      <<26032, 31481, 32291>>,
      <<33495, 26647, 32291>>,
      <<24432, 21270, 32291>>,
      <<21335, 25237, 32291>>,
      <<38642, 26519, 32291>>,
      <<22025, 32681, 24066>>,
      <<22025, 32681, 32291>>,
      <<23631, 26481, 32291>>,
      <<23452, 34349, 32291>>,
      <<33457, 34030, 32291>>,
      <<21488, 26481, 32291>>,
      <<28558, 28246, 32291>>,
      <<37329, 38272, 32291>>,
      <<36899, 27743, 32291>> >>

\* The characters str.strip() removes: Python's whitespace (here the ASCII
\* blanks and the ideographic space).
Whitespace == {9, 10, 11, 12, 13, 28, 29, 30, 31, SPACE, 133, 160, IDEO_SPACE}

\* str.strip()
Strip(s) ==
    LET keep == {i \in 1..Len(s) : s[i] \notin Whitespace}
    IN  IF keep = {} THEN <<>>
        ELSE LET lo == Min(keep)
                 hi == CHOOSE x \in keep : \A y \in keep : y <= x
             IN  [i \in 1..(hi - lo + 1) |-> s[lo + i - 1]]

\* str.replace(a, b) for single characters a and b
ReplaceChar(s, a, b) == [i \in 1..Len(s) |-> IF s[i] = a THEN b ELSE s[i]]

\* str.replace(a, "") for a single character a
RemoveChar(s, a) == SelectSeq(s, LAMBDA c : c # a)

\* Normalize without the replacement of the alternate character form.
Normalize_NoAltForm(addr) == ReplaceChar(Strip(addr), IDEO_SPACE, SPACE)

\* str(address).strip().replace("臺", "台").replace("　", " ")
Normalize(addr) ==
    ReplaceChar(ReplaceChar(Strip(addr), TAI_ALT, TAI), IDEO_SPACE, SPACE)

\* city.replace("市", "").replace("縣", "")
CityBase(c) == RemoveChar(RemoveChar(c, SHI), XIAN)

\* The start of the first occurrence of sub in s (str.find, 1-based; 0: none).
Find(sub, s) ==
    LET at == {i \in 1..(Len(s) - Len(sub) + 1) :
                  \A j \in 1..Len(sub) : s[i + j - 1] = sub[j]}
    IN  IF at = {} THEN 0 ELSE Min(at)

\* The full-name pass returning the region that occurs first in the address.
FullMatch_ByTextOrder(n) ==
    LET hit == {i \in 1..Len(taiwan_cities) : Contains(taiwan_cities[i], n)}
    IN  IF hit = {} THEN None
        ELSE taiwan_cities[CHOOSE i \in hit :
                 \A j \in hit : Find(taiwan_cities[i], n) <= Find(taiwan_cities[j], n)]

\* for city in taiwan_cities: if city in normalized_addr: return city
FullMatch(n) ==
    LET hit == {i \in 1..Len(taiwan_cities) : Contains(taiwan_cities[i], n)}
    IN  IF hit = {} THEN None ELSE taiwan_cities[Min(hit)]

\* for city in taiwan_cities: if city_base in normalized_addr and len(city_base) >= 2
FuzzyMatch(n) ==
    LET hit == {i \in 1..Len(taiwan_cities) :
                   /\ Contains(CityBase(taiwan_cities[i]), n)
                   /\ Len(CityBase(taiwan_cities[i])) >= 2}
    IN  IF hit = {} THEN None ELSE taiwan_cities[Min(hit)]

\* The extraction with the two passes exchanged: base names first.
enhanced_city_extraction_BaseFirst(addr) ==
    IF addr = None \/ addr = <<>> THEN None
    ELSE LET n == Normalize(addr)
         IN  IF FuzzyMatch(n) # None THEN FuzzyMatch(n) ELSE FullMatch(n)

\* address is None (a missing value) or a string
enhanced_city_extraction(addr) ==
    IF addr = None \/ addr = <<>> THEN None
    ELSE LET n == Normalize(addr)
         IN  IF FullMatch(n) # None THEN FullMatch(n) ELSE FuzzyMatch(n)

(***************************************************************************)
(* Tables.  A table is [columns, rows]: the set of its headers and the     *)
(* sequence of its rows, each row a function from the headers to cells.    *)
(* A missing cell of a text column is None.                                *)
(***************************************************************************)
Column(d, h) == [i \in 1..Len(d.rows) |-> d.rows[i][h]]

\* bool(x) of an Optional[str]
Truthy(x) == x # None /\ x # <<>>

\* mask.sum()
CountTrue(mask) == Cardinality({i \in DOMAIN mask : mask[i]})

(***************************************************************************)
(* safe_datetime_convert.  A date cell is [kind, fmt, day, tod]: a missing *)
(* value ("nan"), text that is no date ("junk"), a datetime object as an   *)
(* Excel sheet gives it ("datetime"), or text written in the format fmt    *)
(* ("text").  A timestamp is [day, tod]: the calendar day and the time of  *)
(* day; NaT is the missing timestamp.  pd.to_datetime is modelled as in    *)
(* pandas 2: without a format it infers one from the first non-missing     *)
(* value and parses every value with it, and parses value by value when    *)
(* none can be inferred.                                                   *)
(***************************************************************************)
NaT == [day |-> -1, tod |-> -1]
Timestamp(d, t) == [day |-> d, tod |-> t]

NanDate == [kind |-> "nan", fmt |-> "", day |-> -1, tod |-> -1]
JunkDate == [kind |-> "junk", fmt |-> "", day |-> -1, tod |-> -1]
TextDate(f, d, t) == [kind |-> "text", fmt |-> f, day |-> d, tod |-> t]
ExcelDate(d, t) == [kind |-> "datetime", fmt |-> "", day |-> d, tod |-> t]

formats ==
    << "%Y-%m-%d", "%Y/%m/%d", "%Y-%m-%d %H:%M:%S", "%Y/%m/%d %H:%M:%S",
       "%m/%d/%Y", "%d/%m/%Y" >>

\* One value under pd.to_datetime(..., format=fmt, errors="coerce").
ParseWithFormat(cell, fmt) ==
    IF cell.kind = "datetime" \/ (cell.kind = "text" /\ cell.fmt = fmt)
    THEN Timestamp(cell.day, cell.tod)
    ELSE NaT

\* The parse that gives text that is no date a timestamp in place of NaT.
ParseElement_JunkAsEpoch(cell) ==
    IF cell.kind \in {"datetime", "text"} THEN Timestamp(cell.day, cell.tod)
    ELSE IF cell.kind = "junk" THEN Timestamp(0, 0)
    ELSE NaT

\* One value parsed on its own (no format inferred).
ParseElement(cell) ==
    IF cell.kind \in {"datetime", "text"} THEN Timestamp(cell.day, cell.tod) ELSE NaT

\* The format inferred from the first non-missing value ("": none).
GuessFormat(series) ==
    LET present == {i \in 1..Len(series) : series[i].kind # "nan"}
    IN  IF present = {} THEN ""
        ELSE IF series[Min(present)].kind = "text" THEN series[Min(present)].fmt
        ELSE ""

\* pd.to_datetime(series, errors="coerce")
ToDatetime(series) ==
    LET g == GuessFormat(series)
    IN  [i \in 1..Len(series) |->
            IF g = "" THEN ParseElement(series[i]) ELSE ParseWithFormat(series[i], g)]

\* pd.to_datetime(series, format=fmt, errors="coerce")
ToDatetimeFormat(series, fmt) ==
    [i \in 1..Len(series) |-> ParseWithFormat(series[i], fmt)]

\* result.isna().sum()
NaCount(result) == Cardinality({i \in 1..Len(result) : result[i] = NaT})

safe_datetime_convert(series) ==
    IF series = <<>> THEN series
    ELSE LET result == ToDatetime(series)
             better == {k \in 1..Len(formats) :
                           NaCount(ToDatetimeFormat(series, formats[k])) < NaCount(result)}
         IN  IF 2 * NaCount(result) > Len(result) /\ better # {}
             THEN ToDatetimeFormat(series, formats[Min(better)])
             ELSE result

(***************************************************************************)
(* enhanced_delivery_performance                                           *)
(***************************************************************************)
\* A number kept exact: num / den.  NoValue: not computed.
Ratio(n, d) == [num |-> n, den |-> d]
NoValue == Ratio(0, 0)

DeliveryOut(st) ==
    [ status |-> st,     \* "not_run", "error" (st.error and return),
                         \* "warning" (st.warning and return), "raised", "ok"
      valid_mask |-> <<>>, on_time_mask |-> <<>>, late_mask |-> <<>>,
      total_valid |-> 0, on_time_count |-> 0, late_count |-> 0,
      delivery_rate |-> NoValue, avg_delay |-> NoValue, max_delay |-> 0,
      late_details |-> <<>> ]

\* Series.dt.normalize() that keeps the time of day.
DtNormalize_KeepTime(ts) == ts

\* Series.dt.normalize(), one value: midnight of the same day
DtNormalize(ts) == IF ts = NaT THEN NaT ELSE Timestamp(ts.day, 0)

\* a <= b and a > b on timestamps: False when either is NaT
TsLe(a, b) ==
    /\ a # NaT /\ b # NaT
    /\ a.day < b.day \/ (a.day = b.day /\ a.tod <= b.tod)

TsGt(a, b) ==
    /\ a # NaT /\ b # NaT
    /\ a.day > b.day \/ (a.day = b.day /\ a.tod > b.tod)

\* (a - b).days, one value: whole days, rounded down
DeltaDays(a, b) == (a.day - b.day) - (IF a.tod < b.tod THEN 1 ELSE 0)

\* valid_mask with the two date tests joined by "or".
ValidMask_EitherDate(due_day, sign_day, mask) ==
    [i \in 1..Len(mask) |-> (due_day[i] # NaT \/ sign_day[i] # NaT) /\ mask[i]]

\* valid_mask = due_day.notna() & sign_day.notna() & exclude_swi_mask
ValidMask(due_day, sign_day, mask) ==
    [i \in 1..Len(mask) |-> due_day[i] # NaT /\ sign_day[i] # NaT /\ mask[i]]

\* on_time_mask = (sign_day <= due_day) & valid_mask
OnTimeMask(due_day, sign_day, valid) ==
    [i \in 1..Len(valid) |-> TsLe(sign_day[i], due_day[i]) /\ valid[i]]

\* late_mask with "on or after" in place of "after".
LateMask_SignOnOrAfterDue(due_day, sign_day, valid) ==
    [i \in 1..Len(valid) |-> valid[i] /\ ~TsGt(due_day[i], sign_day[i])]

\* late_mask = valid_mask & (sign_day > due_day)
LateMask(due_day, sign_day, valid) ==
    [i \in 1..Len(valid) |-> valid[i] /\ TsGt(sign_day[i], due_day[i])]

\* The test that never finds the data empty.
NoValidData_Never(total_valid) == FALSE

\* if total_valid == 0: st.warning(...); return
NoValidData(total_valid) == total_valid = 0

\* delivery_rate with the row count of the table as denominator.
DeliveryRate_OverAllRows(on_time_count, total_valid, n_rows) ==
    Ratio(on_time_count * 100, n_rows)

\* delivery_rate = on_time_count / total_valid * 100
DeliveryRate(on_time_count, total_valid, n_rows) ==
    Ratio(on_time_count * 100, total_valid)

RECURSIVE SumOver(_, _)
SumOver(f, S) ==
    IF S = {} THEN 0
    ELSE LET x == CHOOSE y \in S : TRUE IN f[x] + SumOver(f, S \ {x})

Max(S) == CHOOSE x \in S : \A y \in S : y <= x

\* pd.cut(delay, bins=[-inf, 0, 3, 7, 30, inf], labels=[...]): right-closed bins.
\* "on_time" is the label 準時, "slight" 輕微延遲(1-3天), "moderate" 中度延遲(4-7天),
\* "heavy" 重度延遲(8-30天), "severe" 嚴重延遲(>30天).
DelayLevel(delay) ==
    IF delay <= 0 THEN "on_time"
    ELSE IF delay <= 3 THEN "slight"
    ELSE IF delay <= 7 THEN "moderate"
    ELSE IF delay <= 30 THEN "heavy"
    ELSE "severe"

\* The guard without the test that the columns are in the table.
DeliveryGuard_UnmappedOnly(d, cm) ==
    ~(Truthy(cm["due_date"]) /\ Truthy(cm["sign_date"]))

\* not all([due_date_col, sign_date_col]) or not all([col in df.columns ...])
DeliveryGuard(d, cm) ==
    \/ ~(Truthy(cm["due_date"]) /\ Truthy(cm["sign_date"]))
    \/ ~(cm["due_date"] \in d.columns /\ cm["sign_date"] \in d.columns)

\* The function up to the late-detail table, whose rows stand here in index order.
enhanced_delivery_performance(d, cm, mask) ==
    IF DeliveryGuard(d, cm) THEN DeliveryOut("error")
    ELSE IF ~({cm["due_date"], cm["sign_date"]} \subseteq d.columns)
    THEN DeliveryOut("raised")      \* df[due_date_col]: KeyError
    ELSE
    LET due_conv  == safe_datetime_convert(Column(d, cm["due_date"]))
        sign_conv == safe_datetime_convert(Column(d, cm["sign_date"]))
        due_day   == [i \in 1..Len(due_conv) |-> DtNormalize(due_conv[i])]
        sign_day  == [i \in 1..Len(sign_conv) |-> DtNormalize(sign_conv[i])]
        valid     == ValidMask(due_day, sign_day, mask)
        on_time   == OnTimeMask(due_day, sign_day, valid)
        late      == LateMask(due_day, sign_day, valid)
        total_valid   == CountTrue(valid)
        on_time_count == CountTrue(on_time)
        late_count    == CountTrue(late)
        late_idx   == {i \in 1..Len(late) : late[i]}
        delay_days == [i \in late_idx |-> DeltaDays(sign_day[i], due_day[i])]
        ordered    == CHOOSE q \in [1..late_count -> late_idx] :
                          \A a, b \in 1..late_count : a < b => q[a] < q[b]
    IN  IF NoValidData(total_valid)
        THEN [DeliveryOut("warning") EXCEPT
                 !.valid_mask = valid, !.on_time_mask = on_time, !.late_mask = late]
        ELSE [ status |-> "ok",
               valid_mask |-> valid, on_time_mask |-> on_time, late_mask |-> late,
               total_valid |-> total_valid,
               on_time_count |-> on_time_count,
               late_count |-> late_count,
               delivery_rate |-> DeliveryRate(on_time_count, total_valid, Len(d.rows)),
               avg_delay |-> IF late_count > 0
                             THEN Ratio(SumOver(delay_days, late_idx), late_count)
                             ELSE Ratio(0, 1),
               max_delay |-> IF late_count > 0
                             THEN Max({delay_days[i] : i \in late_idx})
                             ELSE 0,
               late_details |->
                   [k \in 1..late_count |->
                       [ index |-> ordered[k],
                         due   |-> due_day[ordered[k]].day,
                         sign  |-> sign_day[ordered[k]].day,
                         delay |-> delay_days[ordered[k]],
                         level |-> DelayLevel(delay_days[ordered[k]]) ]] ]

\* The sort by non-decreasing delay.
SortedByDelay_Ascending(rows) ==
    { [k \in 1..Len(rows) |-> rows[p[k]]] :
        p \in { q \in [1..Len(rows) -> 1..Len(rows)] :
                  /\ \A a, b \in 1..Len(rows) : a # b => q[a] # q[b]
                  /\ \A a, b \in 1..Len(rows) :
                        a < b => rows[q[a]].delay <= rows[q[b]].delay } }

\* late_details.sort_values("延遲天數", ascending=False): the orders of the rows
\* by non-increasing delay (the order among equal delays is the sort's).
SortedByDelay(rows) ==
    { [k \in 1..Len(rows) |-> rows[p[k]]] :
        p \in { q \in [1..Len(rows) -> 1..Len(rows)] :
                  /\ \A a, b \in 1..Len(rows) : a # b => q[a] # q[b]
                  /\ \A a, b \in 1..Len(rows) :
                        a < b => rows[q[a]].delay >= rows[q[b]].delay } }

(***************************************************************************)
(* Exact numbers.  A float is kept as the fraction Ratio(num, den) it      *)
(* stands for, den > 0, in lowest terms after every operation.             *)
(***************************************************************************)
RECURSIVE GCD(_, _)
GCD(a, b) == IF b = 0 THEN a ELSE GCD(b, a % b)

Abs(n) == IF n < 0 THEN -n ELSE n

Normal(n, d) == LET g == GCD(Abs(n), d) IN Ratio(n \div g, d \div g)

\* a + b
RAdd(a, b) ==
    LET l == (a.den \div GCD(a.den, b.den)) * b.den
    IN  Normal(a.num * (l \div a.den) + b.num * (l \div b.den), l)

\* a / k, k a positive integer
RDiv(a, k) == LET g == GCD(Abs(a.num), k) IN Normal(a.num \div g, a.den * (k \div g))

\* a = b
REq(a, b) == a.num * b.den = b.num * a.den

\* x.round(decimals), one value, scale = 10 ** decimals: numpy's
\* rint(x * scale) / scale, the nearest multiple of 1 / scale, a tie going to
\* the even one.  The result is kept over scale.
RoundTo(a, scale) ==
    LET g == GCD(scale, a.den)
        n == a.num * (scale \div g)
        d == a.den \div g
        q == n \div d
        r == n % d
    IN  Ratio(IF 2 * r < d THEN q
              ELSE IF 2 * r > d THEN q + 1
              ELSE IF q % 2 = 0 THEN q ELSE q + 1, scale)

\* x.round(3)
Round3(a) == RoundTo(a, 1000)

\* x.round(2)
Round2(a) == RoundTo(a, 100)

(***************************************************************************)
(* Numeric cells.  A cell of a numeric column is [kind, val, den]: a       *)
(* number val / den ("num"), text that reads as the number val / den       *)
(* ("numtext"), other text ("text") or a missing value ("nan").  NaN is    *)
(* None among numbers.                                                     *)
(***************************************************************************)
NumCell(v) == [kind |-> "num", val |-> v, den |-> 1]
DecimalCell(n, d) == [kind |-> "num", val |-> n, den |-> d]
NumTextCell(v) == [kind |-> "numtext", val |-> v, den |-> 1]
TextCell == [kind |-> "text", val |-> 0, den |-> 1]
NanCell == [kind |-> "nan", val |-> 0, den |-> 1]

\* pd.to_numeric(cell, errors="coerce"): is the result a number?
IsNumeric(cell) == cell.kind \in {"num", "numtext"}

\* pd.to_numeric(cell, errors="coerce") of a numeric cell
ToNumeric(cell) == Normal(cell.val, cell.den)

\* Series.sum() of to_numeric(column) over the rows S: NaN is skipped, and the
\* sum of no number is 0
RECURSIVE NumericSum(_, _, _)
NumericSum(d, h, S) ==
    IF S = {} THEN Ratio(0, 1)
    ELSE LET i == CHOOSE j \in S : TRUE
             rest == NumericSum(d, h, S \ {i})
         IN  IF IsNumeric(d.rows[i][h]) THEN RAdd(ToNumeric(d.rows[i][h]), rest) ELSE rest

\* Series.count() of to_numeric(column) over the rows S
NumericCount(d, h, S) == Cardinality({i \in S : IsNumeric(d.rows[i][h])})

\* Series.mean() of to_numeric(column) over the rows S: NaN (NoValue) when no
\* value is a number
NumericMean(d, h, S) ==
    IF NumericCount(d, h, S) = 0 THEN NoValue
    ELSE RDiv(NumericSum(d, h, S), NumericCount(d, h, S))

(***************************************************************************)
(* enhanced_shipment_analysis (the statistics; charts are left out)        *)
(***************************************************************************)
BLANK == <<40, 31354, 30333, 41>>      \* (空白)
KG_PER_TON == 1000

\* The weight left as it is, unconverted.
KgToTon_Unconverted(a) == a

\* a / 1000, of a number or of NaN
KgToTon(a) == IF a = NoValue THEN NoValue ELSE RDiv(a, KG_PER_TON)

\* x.round(3), of a number or of NaN
Rounded(a) == IF a = NoValue THEN NoValue ELSE Round3(a)

ShipmentOut(st) ==
    [ status |-> st, type_counts |-> <<>>, total_records |-> 0, percentage |-> <<>>,
      copper_kg_sum |-> <<>>, copper_kg_mean |-> <<>>,
      copper_ton_sum |-> <<>>, copper_ton_mean |-> <<>> ]

\* not ship_type_col or ship_type_col not in df.columns
ShipmentGuard(d, cm) ==
    ~Truthy(cm["ship_type"]) \/ cm["ship_type"] \notin d.columns

\* The column left with its missing values.
FillBlank_KeepMissing(v) == v

\* df_work[ship_type_col].fillna("(空白)"), one value
FillBlank(v) == IF v = None THEN BLANK ELSE v

\* type_counts: value_counts() as a function of the type; percentage: the
\* column 佔比(%); copper_kg_sum and copper_kg_mean: the
\* columns of copper_stats after .round(3); copper_ton_sum and copper_ton_mean:
\* the columns 銅重量(噸)合計 and 平均銅重量(噸) of final_stats (<<>>: None).
enhanced_shipment_analysis(d, cm) ==
    IF ShipmentGuard(d, cm) THEN ShipmentOut("error")
    ELSE IF cm["ship_type"] \notin d.columns
    THEN ShipmentOut("raised")      \* df_work[ship_type_col]: KeyError
    ELSE
    LET col     == cm["ship_type"]
        rows    == 1..Len(d.rows)
        typeOf  == [i \in rows |-> FillBlank(d.rows[i][col])]
        types   == {typeOf[i] : i \in rows}
        counts  == [t \in types |-> Cardinality({i \in rows : typeOf[i] = t})]
        total   == SumOver(counts, types)
        copper  == cm["copper_ton"]
        has_cu  == Truthy(copper) /\ copper \in d.columns
        group(t) == {i \in rows : typeOf[i] = t}
        kg_sum  == [t \in types |-> Rounded(NumericSum(d, copper, group(t)))]
        kg_mean == [t \in types |-> Rounded(NumericMean(d, copper, group(t)))]
    IN  [ status |-> "ok",
          type_counts |-> counts,
          total_records |-> total,
          percentage |-> [t \in types |-> Round2(Ratio(counts[t] * 100, total))],
          copper_kg_sum |-> IF has_cu THEN kg_sum ELSE <<>>,
          copper_kg_mean |-> IF has_cu THEN kg_mean ELSE <<>>,
          copper_ton_sum |-> IF has_cu THEN [t \in types |-> Rounded(KgToTon(kg_sum[t]))]
                             ELSE <<>>,
          copper_ton_mean |-> IF has_cu THEN [t \in types |-> Rounded(KgToTon(kg_mean[t]))]
                              ELSE <<>> ]

(***************************************************************************)
(* enhanced_area_analysis (the statistics; charts are left out)            *)
(***************************************************************************)
UNKNOWN == <<40, 26410, 30693, 41>>    \* (未知)

AreaOut(st) ==
    [status |-> st, included |-> {}, city_of |-> <<>>, city_counts |-> <<>>,
     total_records |-> 0]

\* not address_col or address_col not in df.columns
AreaGuard(d, cm) ==
    ~Truthy(cm["address"]) \/ cm["address"] \notin d.columns

\* The selection that takes every row of the table.
RegionRows_AllRows(d, mask) == 1..Len(d.rows)

\* df[exclude_swi_mask]: the rows selected
RegionRows(d, mask) == {i \in 1..Len(d.rows) : mask[i]}

\* included: the rows of region_df = df[exclude_swi_mask]; city_of: its 縣市
\* column after fillna("(未知)"); city_counts: value_counts() as a function.
enhanced_area_analysis(d, cm, mask) ==
    IF AreaGuard(d, cm) THEN AreaOut("error")
    ELSE IF cm["address"] \notin d.columns
    THEN AreaOut("raised")          \* region_df[address_col]: KeyError
    ELSE
    LET region  == RegionRows(d, mask)
        extract == [i \in region |-> enhanced_city_extraction(d.rows[i][cm["address"]])]
        city_of == [i \in region |-> IF extract[i] = None THEN UNKNOWN ELSE extract[i]]
        cities  == {city_of[i] : i \in region}
        counts  == [c \in cities |-> Cardinality({i \in region : city_of[i] = c})]
    IN  [ status |-> "ok",
          included |-> region,
          city_of |-> city_of,
          city_counts |-> counts,
          total_records |-> SumOver(counts, cities) ]

(***************************************************************************)
(* enhanced_loading_analysis (the tables; charts are left out)             *)
(***************************************************************************)
COMPLETED == <<23436, 25104>>          \* 完成
NAN_TEXT == <<110, 97, 110>>           \* nan
TRIP_CODE_LEN == 13

LoadingOut(st) ==
    [ status |-> st, status_filter |-> FALSE, included |-> <<>>,
      trip_code |-> <<>>, copper_ton |-> <<>>, copper_ton_shown |-> <<>>,
      detail |-> <<>>,
      trip_summary |-> <<>> ]

\* not ship_no_col or ship_no_col not in df.columns
LoadingGuard(d, cm) ==
    ~Truthy(cm["ship_no"]) \/ cm["ship_no"] \notin d.columns

\* Series.astype(str), one value of a text column: a missing value reads "nan"
AsStr(v) == IF v = None THEN NAN_TEXT ELSE v

\* s[:n]
Take(s, n) == IF Len(s) <= n THEN s ELSE SubSeq(s, 1, n)

\* The trip code as the whole order number.
TripCode_WholeNumber(v) == AsStr(v)

\* loading_df[ship_no_col].astype(str).str[:13], one value
TripCode(v) == Take(AsStr(v), TRIP_CODE_LEN)

\* a < b on strings: by code point, a proper prefix first
RECURSIVE StrLt(_, _)
StrLt(a, b) ==
    IF b = <<>> THEN FALSE
    ELSE IF a = <<>> THEN TRUE
    ELSE IF Head(a) # Head(b) THEN Head(a) < Head(b)
    ELSE StrLt(Tail(a), Tail(b))

\* The order of sort_values on a text column: strings ascending, missing last.
CellLt(a, b) == a # None /\ (b = None \/ StrLt(a, b))

\* The increasing enumeration of a finite set of row numbers.
RECURSIVE Ascending(_)
Ascending(S) == IF S = {} THEN <<>> ELSE <<Min(S)>> \o Ascending(S \ {Min(S)})

\* Series.unique(): the distinct values in the order of first appearance
RECURSIVE Unique(_)
Unique(s) ==
    IF s = <<>> THEN <<>>
    ELSE <<Head(s)>> \o Unique(SelectSeq(Tail(s), LAMBDA x : x # Head(s)))

\* The mask that compares the status text as it is, unstripped.
BaseMask_ExactStatus(d, cm, mask) ==
    [i \in 1..Len(d.rows) |->
        /\ mask[i]
        /\ (Truthy(cm["status"]) /\ cm["status"] \in d.columns)
              => AsStr(d.rows[i][cm["status"]]) = COMPLETED]

\* base_mask: exclude_swi_mask, and-ed with the status test when the status
\* column is mapped and present
BaseMask(d, cm, mask) ==
    [i \in 1..Len(d.rows) |->
        /\ mask[i]
        /\ (Truthy(cm["status"]) /\ cm["status"] \in d.columns)
              => Strip(AsStr(d.rows[i][cm["status"]])) = COMPLETED]

\* included: the rows of loading_df in table order; trip_code and copper_ton:
\* its columns 車次代碼 and _copper_ton_converted (NoValue: NaN; <<>>: no column);
\* copper_ton_shown: the column 銅重量(噸) of detailed_loading_df, in table order;
\* detail: the rows of detailed_loading_df in its sorted order; trip_summary:
\* one row per pass of the loop over unique(), members being trip_data.
enhanced_loading_analysis(d, cm, mask) ==
    IF LoadingGuard(d, cm) THEN LoadingOut("error")
    ELSE IF cm["ship_no"] \notin d.columns
    THEN LoadingOut("raised")       \* loading_df[ship_no_col]: KeyError
    ELSE
    LET base   == BaseMask(d, cm, mask)
        filt   == Truthy(cm["status"]) /\ cm["status"] \in d.columns
        incl   == Ascending({i \in 1..Len(d.rows) : base[i]})
        ship   == [k \in 1..Len(incl) |-> d.rows[incl[k]][cm["ship_no"]]]
        code   == [k \in 1..Len(incl) |-> TripCode(ship[k])]
        copper == cm["copper_ton"]
        has_cu == Truthy(copper) /\ copper \in d.columns
        ton    == [k \in 1..Len(incl) |->
                      IF IsNumeric(d.rows[incl[k]][copper])
                      THEN KgToTon(ToNumeric(d.rows[incl[k]][copper]))
                      ELSE NoValue]
        before(a, b) ==
            \/ StrLt(code[a], code[b])
            \/ code[a] = code[b] /\ CellLt(ship[a], ship[b])
            \/ code[a] = code[b] /\ ship[a] = ship[b] /\ a < b
        order  == CHOOSE q \in [1..Len(incl) -> 1..Len(incl)] :
                      \A a, b \in 1..Len(incl) : a < b => before(q[a], q[b])
        codes  == Unique(code)
    IN  IF incl = <<>>
        THEN [LoadingOut("warning") EXCEPT !.status_filter = filt]
        ELSE [ status |-> "ok",
               status_filter |-> filt,
               included |-> incl,
               trip_code |-> code,
               copper_ton |-> IF has_cu THEN ton ELSE <<>>,
               copper_ton_shown |->
                   IF has_cu THEN [k \in 1..Len(incl) |-> Rounded(ton[k])] ELSE <<>>,
               detail |-> [k \in 1..Len(incl) |->
                              [index |-> incl[order[k]], trip_code |-> code[order[k]]]],
               trip_summary |->
                   [t \in 1..Len(codes) |->
                       LET members == {incl[k] : k \in {j \in 1..Len(incl) : code[j] = codes[t]}}
                       IN  [ trip_code |-> codes[t],
                             members |-> members,
                             copper_ton_sum |->
                                 IF has_cu
                                 THEN Round3(KgToTon(NumericSum(d, copper, members)))
                                 ELSE NoValue,
                             copper_count |->
                                 IF has_cu THEN NumericCount(d, copper, members) ELSE 0 ]] ]

(***************************************************************************)
(* load_data and main.  An uploaded file is [name, content]; a content is  *)
(* [format, decodable, parses, header, rows]: the kind of bytes ("csv",    *)
(* "xlsx", "xls"), the encodings under which they decode, whether the      *)
(* reader then parses them, and the table they hold.  load_data returns    *)
(* [header, rows, message]: the table, and the error it showed, if any.    *)
(***************************************************************************)
DOT == 46                               \* "."
CSV == <<99, 115, 118>>                 \* csv
XLSX == <<120, 108, 115, 120>>          \* xlsx
XLS == <<120, 108, 115>>                \* xls

encodings == <<"utf-8", "utf-8-sig", "big5", "gbk">>

\* pd.DataFrame(), with the message shown before it is returned
EmptyFrame(msg) == [header |-> <<>>, rows |-> <<>>, message |-> msg]

Frame(content) == [header |-> content.header, rows |-> content.rows, message |-> ""]

\* except Exception: st.error("檔案載入失敗: ..."); return pd.DataFrame()
LoadFailed == EmptyFrame("load_failed")

\* What a statement of load_data's try block does: it returns a table, raises
\* an exception, or the block ends without a return.
Return(frame) == frame

Raise(exc) == [header |-> <<>>, rows |-> <<>>, message |-> "", raised |-> exc]

IsRaise(o) == "raised" \in DOMAIN o

FallsThrough == [header |-> <<>>, rows |-> <<>>, message |-> "", no_return |-> TRUE]

\* pd.read_csv(file_buffer, encoding=encoding): the bytes are decoded, then
\* parsed; a file that holds no CSV text decodes under no encoding.
read_csv(content, encoding) ==
    IF content.format # "csv" \/ encoding \notin content.decodable
    THEN Raise("UnicodeDecodeError")
    ELSE IF ~content.parses THEN Raise("ParserError")
    ELSE Return(Frame(content))

\* pd.read_csv(file_buffer, encoding='utf-8', errors='ignore'): read_csv has
\* no parameter named errors
read_csv_errors_ignore(content) == Raise("TypeError")

\* pd.read_excel(file_buffer, engine="openpyxl"): openpyxl reads xlsx only
read_excel(content) ==
    IF content.format = "xlsx" /\ content.parses
    THEN Return(Frame(content))
    ELSE Raise("InvalidFileException")

\* for encoding in encodings: try ... except UnicodeDecodeError: continue,
\* from the k-th encoding on, and the statements after the loop
RECURSIVE TryEncodings(_, _)
TryEncodings(content, k) ==
    IF k > Len(encodings) THEN read_csv_errors_ignore(content)
    ELSE LET r == read_csv(content, encodings[k])
         IN  IF IsRaise(r) /\ r.raised = "UnicodeDecodeError"
             THEN TryEncodings(content, k + 1)
             ELSE r

\* the try block of load_data
TryBlock(file, file_type, excel) ==
    IF file_type = CSV THEN TryEncodings(file.content, 1)
    ELSE IF file_type \in {XLSX, XLS}
    THEN IF ~excel THEN Return(EmptyFrame("need_openpyxl"))
         ELSE read_excel(file.content)
    ELSE FallsThrough

\* The handler that catches UnicodeDecodeError only.
ExceptException_DecodeErrorOnly(o) ==
    IF IsRaise(o) /\ o.raised = "UnicodeDecodeError" THEN Return(LoadFailed) ELSE o

\* except Exception as e: st.error(...); return pd.DataFrame()
ExceptException(o) == IF IsRaise(o) THEN Return(LoadFailed) ELSE o

load_data(file, file_type, excel) ==
    LET o == ExceptException(TryBlock(file, file_type, excel))
    IN  IF "no_return" \in DOMAIN o THEN EmptyFrame("unsupported") ELSE o

\* s.split(c)[-1]
SplitLast(s, c) ==
    LET at == {i \in 1..Len(s) : s[i] = c}
    IN  IF at = {} THEN s ELSE SubSeq(s, Max(at) + 1, Len(s))

\* uploaded_file.name.split(".")[-1].lower()
FileExtension(name) == LowerStr(SplitLast(name, DOT))

\* The cache key made of the file's name and the file type only.
CacheKey_NameOnly(file, file_type) == <<file.name, file_type>>

\* st.cache_data's key for load_data(file_buffer, file_type): an uploaded file
\* is hashed by its name and its bytes
CacheKey(file, file_type) == <<file.name, file.content, file_type>>

NoContent ==
    [format |-> "", decodable |-> {}, parses |-> FALSE, header |-> <<>>, rows |-> <<>>]

\* the file uploader's value when no file is chosen
NoFile == [name |-> None, content |-> NoContent]

Range(s) == {s[i] : i \in 1..Len(s)}

\* df.empty
IsEmptyFrame(res) == res.header = <<>> \/ res.rows = <<>>

NotRun == [at |-> "not_run", load_message |-> ""]

\* load_data not called yet
NoCall == [file |-> NoFile, file_type |-> None, result |-> EmptyFrame("")]

NOT_USED == <<40, 19981, 20351, 29992, 41>>    \* (不使用)

\* column_options = ["(不使用)"] + list(df.columns)
ColumnOptions(header) == <<NOT_USED>> \o header

\* column_options.index(x), counted from 1
IndexOf(options, x) == Min({i \in 1..Len(options) : options[i] = x})

\* The value of the select box of one field: the option the user has chosen
\* when the box was changed, the option at default_idx otherwise.
Selected(options, auto_mapping, changed, field_key) ==
    IF field_key \in DOMAIN changed THEN changed[field_key]
    ELSE IF auto_mapping[field_key] \in Range(options)
    THEN options[IndexOf(options, auto_mapping[field_key])]
    ELSE options[1]

\* display_column_mapping_interface(df, auto_mapping): the user_mapping it
\* returns, key_fields and other_fields being the 15 roles; changed holds the
\* options of the select boxes the user has changed.
display_column_mapping_interface(header, auto_mapping, changed) ==
    [field_key \in RoleSet |->
        LET selected == Selected(ColumnOptions(header), auto_mapping, changed, field_key)
        IN  IF selected # NOT_USED THEN selected ELSE None]

\* The assignment that keeps the user's selections.
FinalColumnMapping_UserSelections(auto_detected_mapping, selections) == selections

\* with main_tab2: final_column_mapping = display_column_mapping_interface(...)
\* with main_tab1: final_column_mapping = auto_detected_mapping
FinalColumnMapping(auto_detected_mapping, selections) == auto_detected_mapping

\* The columns the sidebar's shipment-type and customer filters read:
\* final_column_mapping.get("ship_type"), final_column_mapping.get("cust_name")
SidebarFilterColumns(mapping) ==
    [ship_type |-> mapping["ship_type"], cust_name |-> mapping["cust_name"]]

\* no select box changed
NoChange == [field_key \in {} |-> NOT_USED]

\* One run of the script with `file` as the uploader's value and `changed` as
\* the changed select boxes of the column-settings tab, up to the assignment
\* of final_column_mapping in the data-analysis tab.
MainWithSelections(file, changed) ==
    /\ uploaded_file' = file
    /\ IF file = NoFile
       THEN /\ main_status' = [at |-> "no_file", load_message |-> ""]
            /\ df' = [columns |-> {}, rows |-> <<>>]
            /\ df_cols' = <<>>
            /\ column_mapping' = [r \in RoleSet |-> None]
            /\ loaded_from' = "none"
            /\ DOMAIN changed = {}
            /\ user_mapping' = [r \in RoleSet |-> None]
            /\ final_column_mapping' = [r \in RoleSet |-> None]
            /\ UNCHANGED <<load_cache, load_call>>
       ELSE LET file_extension == FileExtension(file.name)
                key == CacheKey(file, file_extension)
                hit == \E e \in load_cache : e.key = key
                res == IF hit THEN (CHOOSE e \in load_cache : e.key = key).value
                       ELSE load_data(file, file_extension, excel_available)
                auto_detected_mapping == smart_column_detector(res.header)
                selections ==
                    display_column_mapping_interface(res.header, auto_detected_mapping, changed)
            IN  /\ load_cache' = IF hit THEN load_cache
                                 ELSE load_cache \cup {[key |-> key, value |-> res]}
                /\ loaded_from' = IF hit THEN "cache" ELSE "file"
                /\ load_call' = [file |-> file, file_type |-> file_extension, result |-> res]
                /\ df' = [columns |-> Range(res.header), rows |-> res.rows]
                /\ df_cols' = res.header
                /\ IF IsEmptyFrame(res)
                   THEN /\ main_status' = [at |-> "rejected", load_message |-> res.message]
                        /\ column_mapping' = [r \in RoleSet |-> None]
                        /\ DOMAIN changed = {}
                        /\ user_mapping' = [r \in RoleSet |-> None]
                        /\ final_column_mapping' = [r \in RoleSet |-> None]
                   ELSE /\ main_status' = [at |-> "analysed", load_message |-> res.message]
                        /\ column_mapping' = auto_detected_mapping
                        /\ \A r \in DOMAIN changed :
                              changed[r] \in Range(ColumnOptions(res.header))
                        /\ user_mapping' = selections
                        /\ final_column_mapping' =
                              FinalColumnMapping(auto_detected_mapping, selections)
    /\ UNCHANGED <<pc, excel_available, cityVars, col_map, exclude_swi_mask, outVars, dateVars>>

\* One run of the script with `file` as the uploader's value, no select box of
\* the column-settings tab having been changed.
Main(file) == MainWithSelections(file, NoChange)
(***************************************************************************)
(* The inputs and states of the operations not under study.                *)
(***************************************************************************)
SeqsUpTo(S, n) == UNION {[1..k -> S] : k \in 0..n}

NoMapping == [r \in RoleSet |-> None]

EmptyTable == [columns |-> {}, rows |-> <<>>]

DetIdle == df_cols = <<>> /\ column_mapping = NoMapping

CityIdle == address = None /\ city = None

OutputsNotRun ==
    /\ shipment_out = ShipmentOut("not_run")
    /\ delivery_out = DeliveryOut("not_run")
    /\ area_out = AreaOut("not_run")
    /\ loading_out = LoadingOut("not_run")

AnalysisIdle ==
    /\ df = EmptyTable
    /\ col_map = NoMapping
    /\ exclude_swi_mask = <<>>
    /\ OutputsNotRun

MainIdle ==
    /\ excel_available = TRUE
    /\ uploaded_file = NoFile
    /\ load_cache = {}
    /\ loaded_from = "none"
    /\ main_status = NotRun
    /\ load_call = NoCall


DateIdle == date_series = <<>> /\ date_result = <<>>

TabIdle == user_mapping = NoMapping /\ final_column_mapping = NoMapping
(***************************************************************************)
(* Header lists for the detector: every list of at most MaxCols headers    *)
(* drawn from HeaderPool.                                                  *)
(***************************************************************************)
HeaderPool ==
    { <<39006, 22411>>,                 \* 類型       (ship_type: fallback only)
      <<20986, 36008, 39006, 22411>>,   \* 出貨類型   (ship_type: priority)
      <<23458, 25142, 21517, 31281>>,   \* 客戶名稱   (cust_name: priority)
      <<23458, 25142>>,                 \* 客戶       (cust_name: third fallback)
      <<23458, 21517>>,                 \* 客名       (cust_name: second fallback)
      <<100, 111, 34399>>,              \* do號       (do_no: priority DO號, by case)
      <<68, 79, 21934>>,                \* DO單       (do_no: fallback DO)
      <<20986, 36008, 21934, 34399>>,   \* 出貨單號   (ship_no and do_no: fallback)
      <<37509, 37325, 37327>>,          \* 銅重量     (copper_ton: fourth fallback)
      <<37509, 37325, 37327, 65288, 22136, 65289>>,
                                        \* 銅重量（噸） (copper_ton: second priority)
      <<20633, 35387>> }                \* 備註       (no role)

HeaderLists == SeqsUpTo(HeaderPool, MaxCols)

InitDetect ==
    /\ pc = "start"
    /\ df_cols \in HeaderLists
    /\ column_mapping = NoMapping
    /\ CityIdle
    /\ AnalysisIdle
    /\ MainIdle
    /\ DateIdle
    /\ TabIdle

\* auto_detected_mapping = smart_column_detector(df.columns.tolist())
Detect ==
    /\ pc = "start"
    /\ pc' = "done"
    /\ column_mapping' = smart_column_detector(df_cols)
    /\ UNCHANGED <<df_cols, cityVars, inVars, outVars, mainVars, dateVars, tabVars>>

NextDetect == Detect

SpecDetect == InitDetect /\ [][NextDetect]_vars

(***************************************************************************)
(* Addresses for the extraction: a missing value, or the concatenation of  *)
(* at most MaxAddrParts fragments of AddressFragments.                     *)
(***************************************************************************)
AddressFragments ==
    { <<21488>>,                  \* 台
      <<33274>>,                  \* 臺
      <<21271>>,                  \* 北
      <<21271, 24066>>,           \* 北市
      <<26032, 21271, 24066>>,    \* 新北市
      <<26032, 31481>>,           \* 新竹
      <<32291>>,                  \* 縣
      <<36335>>,                  \* 路
      <<12288>>,                  \* the ideographic space
      <<32>> }                    \* the space

RECURSIVE Concat(_)
Concat(parts) ==
    IF parts = <<>> THEN <<>> ELSE Head(parts) \o Concat(Tail(parts))

Addresses == {Concat(parts) : parts \in SeqsUpTo(AddressFragments, MaxAddrParts)}

InitCity ==
    /\ pc = "start"
    /\ address \in Addresses \cup {None}
    /\ city = None
    /\ DetIdle
    /\ AnalysisIdle
    /\ MainIdle
    /\ DateIdle
    /\ TabIdle

\* region_df[address_col].apply(enhanced_city_extraction), one element
ExtractCity ==
    /\ pc = "start"
    /\ pc' = "done"
    /\ city' = enhanced_city_extraction(address)
    /\ UNCHANGED <<address, detVars, inVars, outVars, mainVars, dateVars, tabVars>>

NextCity == ExtractCity

SpecCity == InitCity /\ [][NextCity]_vars

(***************************************************************************)
(* Tables for the delivery analysis: both date columns, mapped, with 1 to  *)
(* MaxRows rows (main returns on an empty table before any analysis), each *)
(* date cell drawn from DatePool, and every exclusion mask.                *)
(***************************************************************************)
H_DUE == <<25351, 23450, 21040, 36008, 26085, 26399>>     \* 指定到貨日期
H_SIGN == <<23458, 25142, 31805, 25910, 26085, 26399>>    \* 客戶簽收日期

DatePool ==
    { NanDate,
      JunkDate,
      TextDate("%Y-%m-%d", 1, 0),
      TextDate("%Y-%m-%d", 2, 0),
      TextDate("%Y-%m-%d %H:%M:%S", 1, 1) }

DeliveryMap ==
    [NoMapping EXCEPT !["due_date"] = H_DUE, !["sign_date"] = H_SIGN]

DeliveryRows == [{H_DUE, H_SIGN} -> DatePool]

InitDelivery ==
    /\ pc = "start"
    /\ \E n \in 1..MaxRows :
          /\ df \in [columns : {{H_DUE, H_SIGN}}, rows : [1..n -> DeliveryRows]]
          /\ exclude_swi_mask \in [1..n -> BOOLEAN]
    /\ col_map = DeliveryMap
    /\ OutputsNotRun
    /\ DetIdle
    /\ CityIdle
    /\ MainIdle
    /\ DateIdle
    /\ TabIdle

DeliveryPerformance ==
    /\ delivery_out.status = "not_run"
    /\ LET out == enhanced_delivery_performance(df, col_map, exclude_swi_mask)
       IN  \E details \in SortedByDelay(out.late_details) :
               delivery_out' = [out EXCEPT !.late_details = details]
    /\ UNCHANGED <<pc, detVars, cityVars, inVars, shipment_out, area_out, loading_out, mainVars, dateVars, tabVars>>

NextDelivery == DeliveryPerformance

SpecDelivery == InitDelivery /\ [][NextDelivery]_vars

(***************************************************************************)
(* Tables for the loading analysis, with 1 to MaxRows rows and every       *)
(* exclusion mask: the order-number column with the status column (both    *)
(* mapped), or with the copper column (status unmapped, or mapped to a     *)
(* column the table does not have).                                        *)
(***************************************************************************)
H_SHIP_NO == <<20986, 24235, 21934, 34399>>                   \* 出庫單號
H_STATUS == <<36890, 30693, 21934, 38917, 27425, 29376, 24907>>  \* 通知單項次狀態
H_COPPER == <<37509, 37325, 37327, 40, 22136, 41>>            \* 銅重量(噸)

SHIP_A == <<79, 85, 84, 50, 48, 50, 52, 48, 49, 48, 48, 48, 49, 65>>  \* OUT2024010001A
SHIP_B == <<79, 85, 84, 50, 48, 50, 52, 48, 49, 48, 48, 48, 49, 66>>  \* OUT2024010001B
SHIP_13 == <<79, 85, 84, 50, 48, 50, 52, 48, 49, 48, 48, 48, 49>>     \* OUT2024010001
SHIP_SHORT == <<79, 85, 84, 49>>                                      \* OUT1

ShipNoPool == {SHIP_A, SHIP_B, SHIP_13, SHIP_SHORT, None}

StatusPool ==
    { <<23436, 25104>>,             \* 完成
      <<32, 23436, 25104, 32>>,     \* 完成, a space on either side
      <<34389, 29702, 20013>>,      \* 處理中
      None }                        \* a missing value

CopperPool == {NumCell(1500), NumTextCell(500), TextCell, NanCell}

StatusRows ==
    {[h \in {H_SHIP_NO, H_STATUS} |-> IF h = H_SHIP_NO THEN s ELSE t] :
        s \in ShipNoPool, t \in StatusPool}

CopperRows ==
    {[h \in {H_SHIP_NO, H_COPPER} |-> IF h = H_SHIP_NO THEN s ELSE c] :
        s \in {SHIP_A, SHIP_B, SHIP_SHORT}, c \in CopperPool}

InitLoading ==
    /\ pc = "start"
    /\ \E n \in 1..MaxRows :
          /\ exclude_swi_mask \in [1..n -> BOOLEAN]
          /\ \/ /\ df \in [columns : {{H_SHIP_NO, H_STATUS}}, rows : [1..n -> StatusRows]]
                /\ col_map = [NoMapping EXCEPT !["ship_no"] = H_SHIP_NO,
                                                !["status"] = H_STATUS]
             \/ /\ df \in [columns : {{H_SHIP_NO, H_COPPER}}, rows : [1..n -> CopperRows]]
                /\ \E status_col \in {None, H_STATUS} :
                      col_map = [NoMapping EXCEPT !["ship_no"] = H_SHIP_NO,
                                                  !["copper_ton"] = H_COPPER,
                                                  !["status"] = status_col]
    /\ OutputsNotRun
    /\ DetIdle
    /\ CityIdle
    /\ MainIdle
    /\ DateIdle
    /\ TabIdle

LoadingAnalysis ==
    /\ loading_out.status = "not_run"
    /\ loading_out' = enhanced_loading_analysis(df, col_map, exclude_swi_mask)
    /\ UNCHANGED <<pc, detVars, cityVars, inVars, shipment_out, delivery_out, area_out, mainVars, dateVars, tabVars>>

NextLoading == LoadingAnalysis

SpecLoading == InitLoading /\ [][NextLoading]_vars

(***************************************************************************)
(* The four analysis sections on one-row tables: every subset of the five  *)
(* required columns is the table's, and each required role is unmapped or  *)
(* mapped to its column, present or not.                                   *)
(***************************************************************************)
H_SHIP_TYPE == <<20986, 36008, 30003, 35531, 39006, 22411>>   \* 出貨申請類型
H_ADDRESS == <<22320, 22336>>                                 \* 地址

RequiredHeader ==
    [ ship_type |-> H_SHIP_TYPE, due_date |-> H_DUE, sign_date |-> H_SIGN,
      address |-> H_ADDRESS, ship_no |-> H_SHIP_NO ]

RequiredRoles == DOMAIN RequiredHeader

SampleCell(h) ==
    IF h = H_SHIP_TYPE THEN <<19968, 33324>>                          \* 一般
    ELSE IF h = H_DUE THEN TextDate("%Y-%m-%d", 2, 0)
    ELSE IF h = H_SIGN THEN TextDate("%Y-%m-%d", 1, 0)
    ELSE IF h = H_ADDRESS THEN <<21488, 21271, 24066, 20013, 23665, 36335>>  \* 台北市中山路
    ELSE SHIP_A

InitSections ==
    /\ pc = "start"
    /\ \E cols \in SUBSET {RequiredHeader[r] : r \in RequiredRoles} :
          df = [columns |-> cols, rows |-> <<[h \in cols |-> SampleCell(h)]>>]
    /\ \E mapped \in SUBSET RequiredRoles :
          col_map = [r \in RoleSet |->
                        IF r \in mapped THEN RequiredHeader[r] ELSE None]
    /\ exclude_swi_mask = <<TRUE>>
    /\ OutputsNotRun
    /\ DetIdle
    /\ CityIdle
    /\ MainIdle
    /\ DateIdle
    /\ TabIdle

ShipmentAnalysis ==
    /\ shipment_out.status = "not_run"
    /\ shipment_out' = enhanced_shipment_analysis(df, col_map)
    /\ UNCHANGED <<pc, detVars, cityVars, inVars, delivery_out, area_out, loading_out, mainVars, dateVars, tabVars>>

AreaAnalysis ==
    /\ area_out.status = "not_run"
    /\ area_out' = enhanced_area_analysis(df, col_map, exclude_swi_mask)
    /\ UNCHANGED <<pc, detVars, cityVars, inVars, shipment_out, delivery_out, loading_out, mainVars, dateVars, tabVars>>

NextSections ==
    \/ ShipmentAnalysis
    \/ DeliveryPerformance
    \/ AreaAnalysis
    \/ LoadingAnalysis

SpecSections == InitSections /\ [][NextSections]_vars

(***************************************************************************)
(* The script runs of one server process: the user chooses or clears the   *)
(* file, or touches another widget, and each time the script runs again.   *)
(***************************************************************************)
TYPE_AND_DATES ==
    [ header |-> <<H_SHIP_TYPE, H_DUE, H_SIGN>>,
      rows |-> << [h \in {H_SHIP_TYPE, H_DUE, H_SIGN} |-> SampleCell(h)] >> ]

ADDRESS_AND_ORDER ==
    [ header |-> <<H_ADDRESS, H_SHIP_NO>>,
      rows |-> << [h \in {H_ADDRESS, H_SHIP_NO} |-> SampleCell(h)] >> ]

HEADER_ONLY == [header |-> <<H_ADDRESS>>, rows |-> <<>>]

CsvContent(decodable, t) ==
    [format |-> "csv", decodable |-> decodable, parses |-> TRUE,
     header |-> t.header, rows |-> t.rows]

\* a file of zero bytes: it decodes, and the parser raises EmptyDataError
ZeroBytes ==
    [format |-> "csv", decodable |-> Range(encodings), parses |-> FALSE,
     header |-> <<>>, rows |-> <<>>]

XlsxContent(t) ==
    [format |-> "xlsx", decodable |-> {}, parses |-> TRUE,
     header |-> t.header, rows |-> t.rows]

XlsContent(t) ==
    [format |-> "xls", decodable |-> {}, parses |-> TRUE,
     header |-> t.header, rows |-> t.rows]

Files ==
    { [name |-> <<97, 46, 99, 115, 118>>,           \* a.csv
       content |-> CsvContent({"utf-8", "utf-8-sig"}, TYPE_AND_DATES)],
      [name |-> <<97, 46, 99, 115, 118>>,           \* a.csv, exported again
       content |-> CsvContent({"utf-8", "utf-8-sig"}, ADDRESS_AND_ORDER)],
      [name |-> <<98, 46, 67, 83, 86>>,             \* b.CSV
       content |-> CsvContent({"big5", "gbk"}, TYPE_AND_DATES)],
      [name |-> <<99, 46, 99, 115, 118>>,           \* c.csv, in no listed encoding
       content |-> CsvContent({}, TYPE_AND_DATES)],
      [name |-> <<102, 46, 99, 115, 118>>,          \* f.csv, a header and no rows
       content |-> CsvContent({"utf-8", "utf-8-sig"}, HEADER_ONLY)],
      [name |-> <<103, 46, 99, 115, 118>>,          \* g.csv, of zero bytes
       content |-> ZeroBytes],
      [name |-> <<100, 46, 120, 108, 115, 120>>,    \* d.xlsx
       content |-> XlsxContent(ADDRESS_AND_ORDER)],
      [name |-> <<101, 46, 120, 108, 115>>,         \* e.xls
       content |-> XlsContent(TYPE_AND_DATES)] }

Init ==
    /\ pc = "start"
    /\ excel_available \in BOOLEAN
    /\ uploaded_file = NoFile
    /\ load_cache = {}
    /\ loaded_from = "none"
    /\ main_status = NotRun
    /\ load_call = NoCall
    /\ DetIdle
    /\ CityIdle
    /\ AnalysisIdle
    /\ DateIdle
    /\ TabIdle

\* The user chooses another file, or clears the uploader: the script runs.
Upload == \E f \in Files \cup {NoFile} : f # uploaded_file /\ Main(f)

\* The first run of a session, or a run after any other widget changed.
Rerun == Main(uploaded_file)

Next == Upload \/ Rerun

Spec == Init /\ [][Next]_vars

(***************************************************************************)
(* load_data called with any file and any file type, and then the script   *)
(* run with that file uploaded: the file uploader only lets csv, xlsx and  *)
(* xls files through, a direct call of load_data is not so restricted.     *)
(***************************************************************************)
TXT == <<116, 120, 116>>                \* txt

FileTypes == {CSV, XLSX, XLS, TXT, <<>>}

InitLoad ==
    /\ pc = "start"
    /\ excel_available \in BOOLEAN
    /\ uploaded_file = NoFile
    /\ load_cache = {}
    /\ loaded_from = "none"
    /\ main_status = NotRun
    /\ load_call = NoCall
    /\ DetIdle
    /\ CityIdle
    /\ AnalysisIdle
    /\ DateIdle
    /\ TabIdle

\* load_data(file_buffer, file_type), called once before the script runs
LoadData ==
    /\ pc = "start"
    /\ pc' = "called"
    /\ \E file \in Files, file_type \in FileTypes :
          LET res == load_data(file, file_type, excel_available)
          IN  /\ load_call' = [file |-> file, file_type |-> file_type, result |-> res]
              /\ load_cache' = {[key |-> CacheKey(file, file_type), value |-> res]}
    /\ UNCHANGED <<excel_available, uploaded_file, loaded_from, main_status,
                   detVars, cityVars, inVars, outVars, dateVars, tabVars>>

\* the script runs with the same file as the uploader's value
RunWithFile == pc = "called" /\ Main(load_call.file)

NextLoad == LoadData \/ RunWithFile

SpecLoad == InitLoad /\ [][NextLoad]_vars
(***************************************************************************)
(* Tables with a copper-weight column, 1 to MaxRows rows and every         *)
(* exclusion mask, for the shipment-type and the loading analyses.  The    *)
(* weights are whole and decimal kilograms, a number written as text, text *)
(* that is no number, and a missing value.                                 *)
(***************************************************************************)
GENERAL == <<19968, 33324>>             \* 一般

WeightPool ==
    { NumCell(1500),                \* 1500
      DecimalCell(26, 10),          \* 2.6
      DecimalCell(4, 10000),        \* 0.0004
      NumTextCell(500),             \* "500"
      TextCell,
      NanCell }

WeightRows ==
    {[h \in {H_SHIP_TYPE, H_SHIP_NO, H_COPPER} |->
         IF h = H_SHIP_TYPE THEN t ELSE IF h = H_SHIP_NO THEN SHIP_A ELSE c] :
        t \in {GENERAL, None}, c \in WeightPool}

InitCopper ==
    /\ pc = "start"
    /\ \E n \in 1..MaxRows :
          /\ exclude_swi_mask \in [1..n -> BOOLEAN]
          /\ df \in [columns : {{H_SHIP_TYPE, H_SHIP_NO, H_COPPER}},
                     rows : [1..n -> WeightRows]]
    /\ col_map = [NoMapping EXCEPT !["ship_type"] = H_SHIP_TYPE,
                                    !["ship_no"] = H_SHIP_NO,
                                    !["copper_ton"] = H_COPPER]
    /\ OutputsNotRun
    /\ DetIdle
    /\ CityIdle
    /\ MainIdle
    /\ DateIdle
    /\ TabIdle

NextCopper == ShipmentAnalysis \/ LoadingAnalysis

SpecCopper == InitCopper /\ [][NextCopper]_vars
(***************************************************************************)
(* Date columns for safe_datetime_convert: every series of at most         *)
(* MaxSeries values drawn from DateCells, the empty series included.       *)
(***************************************************************************)
DateCells ==
    { NanDate,
      JunkDate,
      ExcelDate(4, 1),
      TextDate("%Y-%m-%d", 1, 0),
      TextDate("%Y/%m/%d", 2, 0),
      TextDate("%d/%m/%Y", 3, 0) }

InitDates ==
    /\ pc = "start"
    /\ date_series \in SeqsUpTo(DateCells, MaxSeries)
    /\ date_result = <<>>
    /\ DetIdle
    /\ CityIdle
    /\ AnalysisIdle
    /\ MainIdle
    /\ TabIdle

\* result = safe_datetime_convert(series)
ConvertDates ==
    /\ pc = "start"
    /\ pc' = "done"
    /\ date_result' = safe_datetime_convert(date_series)
    /\ UNCHANGED <<date_series, detVars, cityVars, inVars, outVars, mainVars, tabVars>>

NextDates == ConvertDates

SpecDates == InitDates /\ [][NextDates]_vars
(***************************************************************************)
(* Tables for the late-detail table of the delivery analysis: both date    *)
(* columns in one text format, with days far enough apart for delays of    *)
(* 1, 2 and 3 days, 1 to MaxRows rows and every exclusion mask.            *)
(***************************************************************************)
LateDatePool ==
    { NanDate,
      TextDate("%Y-%m-%d", 1, 0),
      TextDate("%Y-%m-%d", 2, 0),
      TextDate("%Y-%m-%d", 4, 0) }

InitLate ==
    /\ pc = "start"
    /\ \E n \in 1..MaxRows :
          /\ df \in [columns : {{H_DUE, H_SIGN}},
                     rows : [1..n -> [{H_DUE, H_SIGN} -> LateDatePool]]]
          /\ exclude_swi_mask \in [1..n -> BOOLEAN]
    /\ col_map = DeliveryMap
    /\ OutputsNotRun
    /\ DetIdle
    /\ CityIdle
    /\ MainIdle
    /\ DateIdle
    /\ TabIdle

NextLate == DeliveryPerformance

SpecLate == InitLate /\ [][NextLate]_vars
(***************************************************************************)
(* Tables for the counts by shipment type: the type column alone, mapped,  *)
(* with 1 to MaxTypeRows rows; a type is one of two names, the text (空白)  *)
(* itself, or missing.                                                     *)
(***************************************************************************)
SAMPLE == <<27171, 21697>>              \* 樣品

TypePool == {GENERAL, SAMPLE, BLANK, None}

InitShipment ==
    /\ pc = "start"
    /\ \E n \in 1..MaxTypeRows :
          /\ df \in [columns : {{H_SHIP_TYPE}},
                     rows : [1..n -> [{H_SHIP_TYPE} -> TypePool]]]
          /\ exclude_swi_mask = [i \in 1..n |-> TRUE]
    /\ col_map = [NoMapping EXCEPT !["ship_type"] = H_SHIP_TYPE]
    /\ OutputsNotRun
    /\ DetIdle
    /\ CityIdle
    /\ MainIdle
    /\ DateIdle
    /\ TabIdle

NextShipment == ShipmentAnalysis

SpecShipment == InitShipment /\ [][NextShipment]_vars
(***************************************************************************)
(* Tables for the three analyses that take the exclusion mask: the two     *)
(* date columns, the address and the order number, all mapped, with 1 to   *)
(* MaxRows rows drawn from MaskRows and every exclusion mask.              *)
(***************************************************************************)
MaskColumns == {H_DUE, H_SIGN, H_ADDRESS, H_SHIP_NO}

MaskRow(due, sign, addr, ship) ==
    [h \in MaskColumns |->
        IF h = H_DUE THEN due ELSE IF h = H_SIGN THEN sign
        ELSE IF h = H_ADDRESS THEN addr ELSE ship]

MaskRows ==
    { \* signed a day early, in 台北市中山路
      MaskRow(TextDate("%Y-%m-%d", 2, 0), TextDate("%Y-%m-%d", 1, 0),
              <<21488, 21271, 24066, 20013, 23665, 36335>>, SHIP_A),
      \* signed a day late, in 新北市
      MaskRow(TextDate("%Y-%m-%d", 1, 0), TextDate("%Y-%m-%d", 2, 0),
              <<26032, 21271, 24066>>, SHIP_B),
      \* signed a day late, the address 路 naming no region
      MaskRow(TextDate("%Y-%m-%d", 1, 0), TextDate("%Y-%m-%d", 2, 0),
              <<36335>>, SHIP_SHORT),
      \* no due date, no address
      MaskRow(NanDate, TextDate("%Y-%m-%d", 1, 0), None, SHIP_A) }

InitMask ==
    /\ pc = "start"
    /\ \E n \in 1..MaxRows :
          /\ df \in [columns : {MaskColumns}, rows : [1..n -> MaskRows]]
          /\ exclude_swi_mask \in [1..n -> BOOLEAN]
    /\ col_map = [NoMapping EXCEPT !["due_date"] = H_DUE, !["sign_date"] = H_SIGN,
                                    !["address"] = H_ADDRESS, !["ship_no"] = H_SHIP_NO]
    /\ OutputsNotRun
    /\ DetIdle
    /\ CityIdle
    /\ MainIdle
    /\ DateIdle
    /\ TabIdle

NextMask == DeliveryPerformance \/ AreaAnalysis \/ LoadingAnalysis

SpecMask == InitMask /\ [][NextMask]_vars

(***************************************************************************)
(* Specification of the column-settings tab: files are uploaded and the    *)
(* user changes select boxes of the tab, each change running the script.   *)
(***************************************************************************)
SettingsFiles ==
    { [name |-> <<97, 46, 99, 115, 118>>,           \* a.csv
       content |-> CsvContent({"utf-8", "utf-8-sig"}, TYPE_AND_DATES)],
      [name |-> <<102, 46, 99, 115, 118>>,          \* f.csv, a header and no rows
       content |-> CsvContent({"utf-8", "utf-8-sig"}, HEADER_ONLY)] }

\* the options a select box of the tab can offer for these files
OptionPool ==
    {NOT_USED} \cup Range(TYPE_AND_DATES.header) \cup Range(HEADER_ONLY.header)

\* the select boxes the user has changed, with the option chosen in each
Changes ==
    UNION { [S -> OptionPool] :
              S \in {T \in SUBSET RoleSet : Cardinality(T) <= MaxManual} }

InitSettings ==
    /\ pc = "start"
    /\ excel_available \in BOOLEAN
    /\ uploaded_file = NoFile
    /\ load_cache = {}
    /\ loaded_from = "none"
    /\ main_status = NotRun
    /\ load_call = NoCall
    /\ DetIdle
    /\ CityIdle
    /\ AnalysisIdle
    /\ DateIdle
    /\ TabIdle

\* The user chooses another file, or clears the uploader: the script runs, the
\* select boxes at their defaults.
UploadFile == \E f \in SettingsFiles \cup {NoFile} : f # uploaded_file /\ Main(f)

\* The user changes select boxes of the column-settings tab: the script runs.
ChangeSelection ==
    /\ uploaded_file # NoFile
    /\ \E changed \in Changes : MainWithSelections(uploaded_file, changed)

NextSettings == UploadFile \/ ChangeSelection

SpecSettings == InitSettings /\ [][NextSettings]_vars
HasPriorityHit(r, col) ==
    \E k \in 1..Len(PriorityKeywords[r]) : KeywordHit(PriorityKeywords[r][k], col)

HasAnyHit(r, col) ==
    \/ HasPriorityHit(r, col)
    \/ \E k \in 1..Len(Keywords[r]) : KeywordHit(Keywords[r][k], col)

\* C1: for every role, when some header contains one of the role's priority
\* keywords (case-insensitively), the column returned for the role is a header
\* that a priority keyword matches, wherever fallback-only headers stand.
C1_PriorityBeforeFallback ==
    pc = "done" =>
        \A r \in RoleSet :
            (\E c \in 1..Len(df_cols) : HasPriorityHit(r, df_cols[c]))
                => /\ \E c \in 1..Len(df_cols) : df_cols[c] = column_mapping[r]
                   /\ HasPriorityHit(r, column_mapping[r])

\* C1 witness: a header matched only by a fallback keyword of copper_ton stands
\* before a header matched by a priority keyword, and the latter is returned.
C1_Witness ==
    /\ pc = "done"
    /\ Len(df_cols) = 2
    /\ HasAnyHit("copper_ton", df_cols[1])
    /\ ~HasPriorityHit("copper_ton", df_cols[1])
    /\ HasPriorityHit("copper_ton", df_cols[2])
    /\ column_mapping["copper_ton"] = df_cols[2]

\* C2: the mapping has an entry for each of the 15 roles, each entry is None or
\* one of the input headers, and a role none of whose keywords occurs in any
\* header is mapped to None.
C2_UnmatchedRoleIsNone ==
    pc = "done" =>
        /\ DOMAIN column_mapping = RoleSet
        /\ Cardinality(DOMAIN column_mapping) = 15
        /\ \A r \in RoleSet :
              \/ column_mapping[r] = None
              \/ \E c \in 1..Len(df_cols) : df_cols[c] = column_mapping[r]
        /\ \A r \in RoleSet :
              (\A c \in 1..Len(df_cols) : ~HasAnyHit(r, df_cols[c]))
                  => column_mapping[r] = None

\* C2 witness: a non-empty header list in which one role finds a column (by a
\* keyword that differs from the header in case) and another role finds none.
C2_Witness ==
    /\ pc = "done"
    /\ Len(df_cols) = 2
    /\ column_mapping["do_no"] = <<100, 111, 34399>>
    /\ column_mapping["ship_type"] = None
    /\ \A c \in 1..2 : ~HasAnyHit("ship_type", df_cols[c])

CitySet == {taiwan_cities[i] : i \in 1..Len(taiwan_cities)}

\* C7: the result is None or one of the 22 regions; a missing or empty address
\* gives None; and when full region names occur in the normalized address the
\* result is the one that stands first in the list, not first in the text.
C7_FirstInListOrNone ==
    pc = "done" =>
        /\ Cardinality(CitySet) = 22
        /\ city = None \/ city \in CitySet
        /\ (address = None \/ address = <<>>) => city = None
        /\ (address # None /\ address # <<>>) =>
              \A i \in 1..Len(taiwan_cities) :
                  ( /\ Contains(taiwan_cities[i], Normalize(address))
                    /\ \A j \in 1..(i - 1) :
                          ~Contains(taiwan_cities[j], Normalize(address)) )
                      => city = taiwan_cities[i]

\* C7 witness: two full names occur, the later list entry first in the text,
\* and the earlier list entry is returned.
C7_Witness ==
    /\ pc = "done"
    /\ address # None
    /\ Find(taiwan_cities[2], Normalize(address)) > 0
    /\ Find(taiwan_cities[1], Normalize(address)) > Find(taiwan_cities[2], Normalize(address))
    /\ city = taiwan_cities[1]

\* The address with the character at position i switched between the two forms.
SwapForm(addr, i) ==
    [addr EXCEPT ![i] = IF addr[i] = TAI THEN TAI_ALT
                        ELSE IF addr[i] = TAI_ALT THEN TAI ELSE addr[i]]

\* C8: switching any occurrence of the alternate form to the normalized form,
\* or back, leaves the result unchanged, and a returned region is spelled with
\* the normalized form.
C8_AltFormInvariant ==
    (pc = "done" /\ address # None) =>
        /\ \A i \in 1..Len(address) :
              enhanced_city_extraction(SwapForm(address, i)) = city
        /\ \A j \in 1..Len(city) : city[j] # TAI_ALT

\* C8 witness: an address written with the alternate form yields a region.
C8_Witness ==
    /\ pc = "done"
    /\ address # None
    /\ \E i \in 1..Len(address) : address[i] = TAI_ALT
    /\ city = taiwan_cities[1]

\* The two date columns as safe_datetime_convert returns them.
DueConv == safe_datetime_convert(Column(df, col_map["due_date"]))
SignConv == safe_datetime_convert(Column(df, col_map["sign_date"]))

DeliveryRan == delivery_out.status \in {"ok", "warning"}

\* The records valid for the rate: both dates parsed, and not excluded.
ValidRecords ==
    {i \in 1..Len(df.rows) :
        DueConv[i] # NaT /\ SignConv[i] # NaT /\ exclude_swi_mask[i]}

\* The valid records signed on or before the due day.
OnTimeRecords == {i \in ValidRecords : SignConv[i].day <= DueConv[i].day}

\* C4: a record whose due date or sign date is missing after conversion is in
\* none of the valid, on-time and late masks, and the three counts are the
\* sizes of these masks.
C4_UnparsedNeverCounted ==
    DeliveryRan =>
        /\ \A i \in 1..Len(df.rows) :
              (DueConv[i] = NaT \/ SignConv[i] = NaT) =>
                  /\ ~delivery_out.valid_mask[i]
                  /\ ~delivery_out.on_time_mask[i]
                  /\ ~delivery_out.late_mask[i]
        /\ delivery_out.total_valid = CountTrue(delivery_out.valid_mask)
        /\ delivery_out.on_time_count = CountTrue(delivery_out.on_time_mask)
        /\ delivery_out.late_count = CountTrue(delivery_out.late_mask)

\* C4 witness: the rate was computed over a table with one record whose sign
\* date did not parse (and that is not excluded) and one valid record.
C4_Witness ==
    /\ delivery_out.status = "ok"
    /\ Len(df.rows) = 2
    /\ DueConv[1] # NaT /\ SignConv[1] = NaT /\ exclude_swi_mask[1]
    /\ delivery_out.valid_mask[2]
    /\ delivery_out.total_valid = 1

\* C5: a valid record is on-time exactly when the calendar day of its sign date
\* is on or before the calendar day of its due date, whatever the times of day,
\* and late otherwise.
C5_ComparedByCalendarDay ==
    DeliveryRan =>
        \A i \in 1..Len(df.rows) :
            delivery_out.valid_mask[i] =>
                /\ delivery_out.on_time_mask[i] <=> SignConv[i].day <= DueConv[i].day
                /\ delivery_out.late_mask[i] <=> SignConv[i].day > DueConv[i].day

\* C5 witness: a valid record signed on the due day at a later time of day is
\* on-time.
C5_Witness ==
    /\ delivery_out.status = "ok"
    /\ \E i \in 1..Len(df.rows) :
          /\ delivery_out.valid_mask[i]
          /\ SignConv[i].day = DueConv[i].day
          /\ SignConv[i].tod > DueConv[i].tod
          /\ delivery_out.on_time_mask[i]

Unavailable(r) == col_map[r] = None \/ col_map[r] \notin df.columns

\* C3: a section whose required role is unmapped or mapped to a column that is
\* not in the table shows its message and returns with no statistic computed,
\* and does not raise: shipment needs ship_type, delivery needs due_date and
\* sign_date, area needs address, loading needs ship_no.
C3_SectionSkippedWithoutColumn ==
    /\ (shipment_out.status # "not_run" /\ Unavailable("ship_type"))
          => shipment_out = ShipmentOut("error")
    /\ (delivery_out.status # "not_run"
            /\ (Unavailable("due_date") \/ Unavailable("sign_date")))
          => delivery_out = DeliveryOut("error")
    /\ (area_out.status # "not_run" /\ Unavailable("address"))
          => area_out = AreaOut("error")
    /\ (loading_out.status # "not_run" /\ Unavailable("ship_no"))
          => loading_out = LoadingOut("error")

\* C3 witness: all four sections ran; delivery was skipped because sign_date
\* is mapped to a column the table lacks, loading because ship_no is unmapped,
\* and shipment computed.
C3_Witness ==
    /\ col_map["sign_date"] = H_SIGN /\ H_SIGN \notin df.columns
    /\ col_map["due_date"] = H_DUE /\ H_DUE \in df.columns
    /\ col_map["ship_no"] = None
    /\ delivery_out.status = "error"
    /\ loading_out.status = "error"
    /\ area_out.status # "not_run"
    /\ shipment_out.status = "ok"

\* The string form of the order number of row i of the table.
OrderNumberText(i) == AsStr(df.rows[i][col_map["ship_no"]])

\* The summary rows that hold row i of the table.
SummaryRowsOf(i) ==
    {t \in 1..Len(loading_out.trip_summary) : i \in loading_out.trip_summary[t].members}

\* C9: the trip code of an included record is the first 13 characters of the
\* string form of its order number (all of it when shorter); two included
\* records share a summary row exactly when their trip codes are equal; the
\* summary has one row per distinct trip code; and every included record is in
\* exactly one row.
C9_TripCodeGroups ==
    loading_out.status = "ok" =>
        LET n == Len(loading_out.included)
            code == loading_out.trip_code
            rowOf(k) == SummaryRowsOf(loading_out.included[k])
        IN  /\ \A k \in 1..n :
                  LET s == OrderNumberText(loading_out.included[k])
                  IN  /\ Len(code[k]) = IF Len(s) < 13 THEN Len(s) ELSE 13
                      /\ \A j \in 1..Len(code[k]) : code[k][j] = s[j]
            /\ \A a, b \in 1..n :
                  (rowOf(a) \cap rowOf(b) # {}) <=> code[a] = code[b]
            /\ Len(loading_out.trip_summary) = Cardinality({code[k] : k \in 1..n})
            /\ \A t, u \in 1..Len(loading_out.trip_summary) :
                  t # u => loading_out.trip_summary[t].trip_code
                              # loading_out.trip_summary[u].trip_code
            /\ \A k \in 1..n :
                  /\ Cardinality(rowOf(k)) = 1
                  /\ \A t \in rowOf(k) : loading_out.trip_summary[t].trip_code = code[k]

\* C9 witness: two included records with different order numbers longer than 13
\* characters and the same first 13 characters fall in one summary row.
C9_Witness ==
    /\ loading_out.status = "ok"
    /\ Len(loading_out.included) = 2
    /\ OrderNumberText(1) # OrderNumberText(2)
    /\ Len(OrderNumberText(1)) > 13
    /\ Len(loading_out.trip_summary) = 1
    /\ loading_out.trip_summary[1].members = {1, 2}

\* What load_data's body returns for the file of the last run.
FreshLoad ==
    load_data(uploaded_file, FileExtension(uploaded_file.name), excel_available)

NoEncodingDecodes(file) ==
    \A k \in 1..Len(encodings) : encodings[k] \notin file.content.decodable

\* C11: load_data never raises: it returns an empty table, with the error it
\* showed, when the file type is none of csv, xlsx, xls, when the type is an
\* Excel type and openpyxl is missing, and when its try block raises, as it
\* does when every listed CSV encoding fails to decode; and a run of main
\* whose table is empty stops with an error, with no column detected and no
\* analysis section run, while a run with a non-empty table goes on.
C11_EmptyOrInvalidFileRejected ==
    /\ LET file == load_call.file
           file_type == load_call.file_type
           result == load_call.result
       IN  load_call # NoCall =>
             /\ ~IsRaise(result)
             /\ file_type \notin {CSV, XLSX, XLS} => result = EmptyFrame("unsupported")
             /\ (file_type \in {XLSX, XLS} /\ ~excel_available) =>
                    result = EmptyFrame("need_openpyxl")
             /\ IsRaise(TryBlock(file, file_type, excel_available)) =>
                    result = EmptyFrame("load_failed")
             /\ (file_type = CSV /\ NoEncodingDecodes(file)) =>
                    result = EmptyFrame("load_failed")
             /\ result.message # "" => (result.header = <<>> /\ result.rows = <<>>)
    /\ main_status.at \in {"rejected", "analysed"} =>
          /\ main_status.at = "rejected" <=>
                (load_call.result.header = <<>> \/ load_call.result.rows = <<>>)
          /\ main_status.at = "rejected" =>
                (column_mapping = NoMapping /\ OutputsNotRun)
          /\ main_status.at = "analysed" =>
                column_mapping = smart_column_detector(load_call.result.header)

\* C11 witness: main rejected a CSV file that no listed encoding decodes.
C11_Witness ==
    /\ main_status.at = "rejected"
    /\ main_status.load_message = "load_failed"
    /\ load_call.file_type = CSV
    /\ load_call.file.content.format = "csv"
    /\ NoEncodingDecodes(load_call.file)
    /\ load_call.result = EmptyFrame("load_failed")
(***************************************************************************)
(* Claims about the status filter of the loading analysis.                 *)
(***************************************************************************)
\* The status column is mapped and is a column of the table.
StatusColumnPresent == col_map["status"] # None /\ col_map["status"] \in df.columns

\* Text s is text t with nothing but whitespace before and after it.
IsPadded(s, t) ==
    \E i \in 0..(Len(s) - Len(t)) :
        /\ \A j \in 1..Len(t) : s[i + j] = t[j]
        /\ \A j \in 1..Len(s) : (j <= i \/ j > i + Len(t)) => s[j] \in Whitespace

\* The rows of the table that the loading analysis works on.
IncludedRecords == {loading_out.included[k] : k \in 1..Len(loading_out.included)}

\* C12: when the order-number column is there, the loading analysis goes on
\* whether or not the status column is: with the status column mapped and
\* present, the included records are exactly the non-excluded ones whose status
\* text is 完成 up to surrounding whitespace; otherwise a warning is shown in
\* place of the filter notice and every non-excluded record is included.
C12_StatusFilterOrAllRecords ==
    loading_out.status \in {"ok", "warning"} =>
        /\ loading_out.status_filter = StatusColumnPresent
        /\ StatusColumnPresent =>
              IncludedRecords =
                  {i \in 1..Len(df.rows) :
                      /\ exclude_swi_mask[i]
                      /\ df.rows[i][col_map["status"]] # None
                      /\ IsPadded(df.rows[i][col_map["status"]], COMPLETED)}
        /\ ~StatusColumnPresent =>
              IncludedRecords = {i \in 1..Len(df.rows) : exclude_swi_mask[i]}
        /\ IncludedRecords = {} <=> loading_out.status = "warning"

\* C12 witness: with the status filter on, a record whose status is 完成 between
\* spaces is included and a non-excluded record of another status is not.
C12_Witness ==
    /\ loading_out.status = "ok"
    /\ loading_out.status_filter
    /\ \E i \in IncludedRecords :
          /\ df.rows[i][col_map["status"]] # COMPLETED
          /\ IsPadded(df.rows[i][col_map["status"]], COMPLETED)
    /\ \E i \in 1..Len(df.rows) : exclude_swi_mask[i] /\ i \notin IncludedRecords
(***************************************************************************)
(* Claims about the conversion of the copper weight to tons.               *)
(***************************************************************************)
\* The copper cell of row i of the table, and whether it reads as a number.
CopperCell(i) == df.rows[i][col_map["copper_ton"]]

HasNumber(i) == CopperCell(i).kind \in {"num", "numtext"}

\* The sum of the copper values, in kilograms, of the rows S, all numeric.
RECURSIVE KgTotal(_)
KgTotal(S) ==
    IF S = {} THEN Ratio(0, 1)
    ELSE LET i == CHOOSE j \in S : TRUE
         IN  RAdd(Normal(CopperCell(i).val, CopperCell(i).den), KgTotal(S \ {i}))

\* r is x rounded to a multiple of 1 / scale: r is over scale and lies within
\* half of 1 / scale of x.
IsRoundOf(x, r, scale) ==
    LET g == GCD(scale, x.den)
    IN  /\ r.den = scale
        /\ 2 * Abs(x.num * (scale \div g) - r.num * (x.den \div g)) <= x.den \div g

\* The rows of the table whose shipment type, blanks filled, is t.
RowsOfType(t) ==
    {i \in 1..Len(df.rows) :
        (IF df.rows[i][col_map["ship_type"]] = None THEN BLANK
         ELSE df.rows[i][col_map["ship_type"]]) = t}

\* C13 as stated: the weights shown in tons are the exact thousandth part of
\* the kilogram values: of each record's value in the loading analysis, of each
\* type's sum and mean in the shipment analysis.
C13_ExactThousandth ==
    /\ loading_out.status = "ok" =>
          \A k \in 1..Len(loading_out.included) :
              HasNumber(loading_out.included[k]) =>
                  REq(loading_out.copper_ton_shown[k],
                      Ratio(CopperCell(loading_out.included[k]).val,
                            CopperCell(loading_out.included[k]).den * 1000))
    /\ shipment_out.status = "ok" =>
          \A t \in DOMAIN shipment_out.type_counts :
              LET S == {i \in RowsOfType(t) : HasNumber(i)}
              IN  /\ REq(shipment_out.copper_ton_sum[t], RDiv(KgTotal(S), 1000))
                  /\ S # {} =>
                        REq(shipment_out.copper_ton_mean[t],
                            RDiv(RDiv(KgTotal(S), Cardinality(S)), 1000))

\* C13 as amended: a record's copper weight in tons is its numeric value / 1000
\* and is shown rounded to 3 decimals; a type's sum and mean in kilograms, taken
\* over the numeric values only, are rounded to 3 decimals, divided by 1000 and
\* rounded to 3 decimals again; a value that is not numeric is missing, adds
\* nothing to a sum, and a type with no numeric value has sum 0 and no mean.
C13_ThousandthRoundedToThreeDecimals ==
    /\ loading_out.status = "ok" =>
          \A k \in 1..Len(loading_out.included) :
              LET i == loading_out.included[k]
              IN  IF HasNumber(i)
                  THEN /\ REq(loading_out.copper_ton[k],
                              Ratio(CopperCell(i).val, CopperCell(i).den * 1000))
                       /\ IsRoundOf(loading_out.copper_ton[k],
                                    loading_out.copper_ton_shown[k], 1000)
                  ELSE /\ loading_out.copper_ton[k] = NoValue
                       /\ loading_out.copper_ton_shown[k] = NoValue
    /\ shipment_out.status = "ok" =>
          \A t \in DOMAIN shipment_out.type_counts :
              LET S == {i \in RowsOfType(t) : HasNumber(i)}
                  kg_sum == shipment_out.copper_kg_sum[t]
                  kg_mean == shipment_out.copper_kg_mean[t]
              IN  /\ IsRoundOf(KgTotal(S), kg_sum, 1000)
                  /\ IsRoundOf(RDiv(kg_sum, 1000), shipment_out.copper_ton_sum[t], 1000)
                  /\ IF S = {}
                     THEN /\ kg_mean = NoValue
                          /\ shipment_out.copper_ton_mean[t] = NoValue
                     ELSE /\ IsRoundOf(RDiv(KgTotal(S), Cardinality(S)), kg_mean, 1000)
                          /\ IsRoundOf(RDiv(kg_mean, 1000),
                                       shipment_out.copper_ton_mean[t], 1000)

\* C13 witness: both analyses ran on a table where a weight of 2.6 kg is shown
\* as 0.003 t, and where the shipment type of that record has another record
\* whose weight is no number, the type's sum being shown as 0.003 t too.
C13_Witness ==
    /\ loading_out.status = "ok"
    /\ shipment_out.status = "ok"
    /\ \E k \in 1..Len(loading_out.included) :
          /\ CopperCell(loading_out.included[k]) = DecimalCell(26, 10)
          /\ loading_out.copper_ton_shown[k] = Ratio(3, 1000)
    /\ \E t \in DOMAIN shipment_out.type_counts :
          /\ \E i \in RowsOfType(t) : ~HasNumber(i)
          /\ \E i \in RowsOfType(t) : CopperCell(i) = DecimalCell(26, 10)
          /\ shipment_out.copper_kg_sum[t] = Ratio(2600, 1000)
          /\ shipment_out.copper_ton_sum[t] = Ratio(3, 1000)
(***************************************************************************)
(* Claims about the order in which find_best_match resolves ambiguity.     *)
(***************************************************************************)
\* The keyword list that decides role r: the priority list when one of its
\* keywords occurs in a header, the general list otherwise.
DecidingList(r) ==
    IF \E c \in 1..Len(df_cols) : HasPriorityHit(r, df_cols[c])
    THEN PriorityKeywords[r] ELSE Keywords[r]

\* Keyword k of list kws occurs in header c.
Occurs(kws, k, c) == Contains(LowerStr(kws[k]), LowerStr(df_cols[c]))

\* C14: for every role some keyword of which occurs in a header, the column
\* returned is the earliest header containing the earliest keyword, of the
\* deciding list, that occurs in any header: an earlier header that contains
\* only later keywords is passed over, and nothing else (length of the match,
\* exactness, columns given to other roles) enters the choice.
C14_KeywordOrderThenHeaderOrder ==
    pc = "done" =>
        \A r \in RoleSet :
            LET kws == DecidingList(r)
            IN  \A k \in 1..Len(kws), c \in 1..Len(df_cols) :
                    ( /\ Occurs(kws, k, c)
                      /\ \A j \in 1..(k - 1), b \in 1..Len(df_cols) : ~Occurs(kws, j, b)
                      /\ \A b \in 1..(c - 1) : ~Occurs(kws, k, b) )
                        => column_mapping[r] = df_cols[c]

\* C14 witness: the first header contains only a later keyword of cust_name
\* (客戶), the second an earlier one (客名), and the second is returned; and one
\* header (出貨單號) is returned for two roles in some list.
C14_Witness ==
    /\ pc = "done"
    /\ Len(df_cols) = 2
    /\ \E k1, k2 \in 1..Len(Keywords["cust_name"]) :
          /\ k1 < k2
          /\ Occurs(Keywords["cust_name"], k2, 1)
          /\ ~Occurs(Keywords["cust_name"], k1, 1)
          /\ Occurs(Keywords["cust_name"], k1, 2)
    /\ df_cols[1] # df_cols[2]
    /\ column_mapping["cust_name"] = df_cols[2]

\* C14 witness of the shared column: one header is returned for two roles.
C14_SharedColumn ==
    /\ pc = "done"
    /\ column_mapping["ship_no"] # None
    /\ column_mapping["ship_no"] = column_mapping["do_no"]
(***************************************************************************)
(* Claims about safe_datetime_convert.                                     *)
(***************************************************************************)
\* The number of missing values of a converted series.
Missing(r) == Cardinality({i \in 1..Len(r) : r[i] = NaT})

\* The default parse of the argument, and its parse with the k-th format.
DefaultParse == ToDatetime(date_series)

FormatParse(k) == ToDatetimeFormat(date_series, formats[k])

\* C15: the empty series is returned as it is; otherwise the result has the
\* length and index of the argument, each of its values is the timestamp of the
\* argument's value or missing, missing and unparseable values are missing;
\* when at most half of the default parse is missing the result is the default
\* parse; when more than half is missing the result is the parse with the
\* first format, in the listed order, that leaves strictly fewer values
\* missing than the default parse, and the default parse when there is none;
\* so the result never has more missing values than the default parse.
C15_BestEffortDateCoercion ==
    pc = "done" =>
        /\ date_series = <<>> => date_result = date_series
        /\ date_series # <<>> =>
              /\ DOMAIN date_result = DOMAIN date_series
              /\ \A i \in DOMAIN date_series :
                    /\ date_result[i] \in
                          {NaT, [day |-> date_series[i].day, tod |-> date_series[i].tod]}
                    /\ date_series[i].kind \in {"nan", "junk"} => date_result[i] = NaT
              /\ 2 * Missing(DefaultParse) <= Len(date_series) =>
                    date_result = DefaultParse
              /\ 2 * Missing(DefaultParse) > Len(date_series) =>
                    \/ /\ date_result = DefaultParse
                       /\ \A k \in 1..Len(formats) :
                             Missing(FormatParse(k)) >= Missing(DefaultParse)
                    \/ \E k \in 1..Len(formats) :
                          /\ date_result = FormatParse(k)
                          /\ Missing(FormatParse(k)) < Missing(DefaultParse)
                          /\ \A j \in 1..(k - 1) :
                                Missing(FormatParse(j)) >= Missing(DefaultParse)
              /\ Missing(date_result) <= Missing(DefaultParse)

\* C15 witness: more than half of the default parse is missing, the first
\* listed format does not improve on it, a later one does, and the result is
\* the parse with that one, in which a value of another format is missing.
C15_Witness ==
    /\ pc = "done"
    /\ Len(date_series) = 3
    /\ 2 * Missing(DefaultParse) > 3
    /\ Missing(FormatParse(1)) >= Missing(DefaultParse)
    /\ date_result # DefaultParse
    /\ Missing(date_result) < Missing(DefaultParse)
    /\ \E i \in 1..3 : date_result[i] = NaT
(***************************************************************************)
(* Claims about the two passes of enhanced_city_extraction.                *)
(***************************************************************************)
\* A region name without the characters 市 and 縣.
BaseName(c) == SelectSeq(c, LAMBDA ch : ch # SHI /\ ch # XIAN)

\* The list entries whose full name, and whose base name, occurs in the
\* normalized address.
FullNameEntries ==
    {i \in 1..Len(taiwan_cities) : Find(taiwan_cities[i], Normalize(address)) > 0}

BaseNameEntries ==
    {i \in 1..Len(taiwan_cities) : Find(BaseName(taiwan_cities[i]), Normalize(address)) > 0}

\* C16: when a full region name occurs anywhere in the normalized address the
\* result is a region whose full name occurs (the first such list entry), also
\* when the base name of an earlier list entry occurs; only when no full name
\* occurs is the result the first list entry whose base name occurs, and None
\* when no base name occurs either.
C16_FullNameBeforeBaseName ==
    (pc = "done" /\ address # None /\ address # <<>>) =>
        /\ FullNameEntries # {} =>
              /\ \E i \in FullNameEntries : city = taiwan_cities[i]
              /\ \A i \in FullNameEntries :
                    (\A j \in FullNameEntries : i <= j) => city = taiwan_cities[i]
        /\ (FullNameEntries = {} /\ BaseNameEntries # {}) =>
              \A i \in BaseNameEntries :
                  (\A j \in BaseNameEntries : i <= j) => city = taiwan_cities[i]
        /\ (FullNameEntries = {} /\ BaseNameEntries = {}) => city = None

\* C16 witness: the full name 新北市 occurs, the base name 台北 of the earlier
\* entry 台北市 occurs too, and 新北市 is returned.
C16_Witness ==
    /\ pc = "done"
    /\ address # None
    /\ FullNameEntries = {2}
    /\ 1 \in BaseNameEntries
    /\ city = taiwan_cities[2]

\* C16 witness of the base-name pass: no full name occurs, the base name 新竹
\* of two entries does, and the first of them, 新竹市, is returned.
C16_BaseNameOnly ==
    /\ pc = "done"
    /\ address # None
    /\ FullNameEntries = {}
    /\ BaseNameEntries = {8, 9}
    /\ city = taiwan_cities[8]
(***************************************************************************)
(* Claims about the counts, the guards and the late-detail table of the    *)
(* delivery analysis.                                                      *)
(***************************************************************************)
\* The valid records signed after the due day.
LateRecords == {i \in ValidRecords : SignConv[i].day > DueConv[i].day}

\* C17: on every table no record is both on-time and late, a record is valid
\* exactly when it is on-time or late, and the on-time and late counts add up
\* to the valid count.
C17_OnTimeAndLatePartitionValid ==
    DeliveryRan =>
        /\ \A i \in 1..Len(df.rows) :
              /\ ~(delivery_out.on_time_mask[i] /\ delivery_out.late_mask[i])
              /\ delivery_out.valid_mask[i] <=>
                    (delivery_out.on_time_mask[i] \/ delivery_out.late_mask[i])
        /\ CountTrue(delivery_out.on_time_mask) + CountTrue(delivery_out.late_mask)
              = CountTrue(delivery_out.valid_mask)
        /\ delivery_out.on_time_count + delivery_out.late_count
              = delivery_out.total_valid

\* C17 witness: of two valid records one is on-time, its sign day being its due
\* day, and the other is late.
C17_Witness ==
    /\ delivery_out.status = "ok"
    /\ delivery_out.total_valid = 2
    /\ delivery_out.on_time_count = 1
    /\ delivery_out.late_count = 1
    /\ \E i \in 1..Len(df.rows) :
          delivery_out.on_time_mask[i] /\ SignConv[i].day = DueConv[i].day

C18_NoLateRecord ==
    /\ delivery_out.status = "ok"
    /\ delivery_out.late_count = 0
    /\ delivery_out.avg_delay = Ratio(0, 1)

\* C19: the late-detail table has one row for each late record and no other
\* row; the delay of a row is the sign day minus the due day of its record and
\* is at least 1, so that no row is of the class 準時; and the rows stand in
\* non-increasing order of delay.
C19_LateDetailRows ==
    delivery_out.status = "ok" =>
        LET rows == delivery_out.late_details
        IN  /\ Len(rows) = Cardinality(LateRecords)
            /\ {rows[k].index : k \in 1..Len(rows)} = LateRecords
            /\ \A k \in 1..Len(rows) :
                  /\ rows[k].delay = SignConv[rows[k].index].day - DueConv[rows[k].index].day
                  /\ rows[k].delay >= 1
                  /\ rows[k].level # "on_time"
            /\ \A a, b \in 1..Len(rows) : a < b => rows[a].delay >= rows[b].delay

\* C19 witness: two late records, the first of the table with the smaller
\* delay, stand in the detail table with the larger delay first, beside no
\* other record.
C19_Witness ==
    /\ delivery_out.status = "ok"
    /\ Len(df.rows) = 2
    /\ Len(delivery_out.late_details) = 2
    /\ delivery_out.late_details[1].index = 2
    /\ delivery_out.late_details[1].delay = 3
    /\ delivery_out.late_details[2].delay = 1
(***************************************************************************)
(* Claims about the counts by shipment type.                               *)
(***************************************************************************)
\* The label under which row i of the table is counted.
TypeLabel(i) ==
    IF df.rows[i][col_map["ship_type"]] = None THEN BLANK
    ELSE df.rows[i][col_map["ship_type"]]

\* The number of rows counted under label t.
CountOfType(t) == Cardinality({i \in 1..Len(df.rows) : TypeLabel(i) = t})

\* Every record is counted, under one label, a missing type under (空白), and
\* the counts add up to the number of rows of the table.
NoRecordDropped ==
    /\ DOMAIN shipment_out.type_counts = {TypeLabel(i) : i \in 1..Len(df.rows)}
    /\ \A t \in DOMAIN shipment_out.type_counts :
          shipment_out.type_counts[t] = CountOfType(t)
    /\ None \notin DOMAIN shipment_out.type_counts
    /\ SumOver(shipment_out.type_counts, DOMAIN shipment_out.type_counts) = Len(df.rows)
    /\ shipment_out.total_records = Len(df.rows)

\* C20 as stated: no record is dropped, and each type's percentage is exactly
\* its count / the total * 100.
C20_ExactPercentage ==
    shipment_out.status = "ok" =>
        /\ NoRecordDropped
        /\ \A t \in DOMAIN shipment_out.type_counts :
              REq(shipment_out.percentage[t],
                  Ratio(shipment_out.type_counts[t] * 100, Len(df.rows)))

\* C20 as amended: no record is dropped, and each type's percentage is its
\* count / the total * 100 rounded to 2 decimals.
C20_CountsConservedPercentageRounded ==
    shipment_out.status = "ok" =>
        /\ NoRecordDropped
        /\ \A t \in DOMAIN shipment_out.type_counts :
              IsRoundOf(Ratio(shipment_out.type_counts[t] * 100, Len(df.rows)),
                        shipment_out.percentage[t], 100)

\* C20 witness: of three records one has a missing type, one the type (空白)
\* written out and one another type; two are counted under (空白), whose
\* percentage is 66.67, and one under the other type, at 33.33.
C20_Witness ==
    /\ shipment_out.status = "ok"
    /\ Len(df.rows) = 3
    /\ \E i \in 1..3 : df.rows[i][col_map["ship_type"]] = None
    /\ \E i \in 1..3 : df.rows[i][col_map["ship_type"]] = BLANK
    /\ shipment_out.type_counts[BLANK] = 2
    /\ shipment_out.percentage[BLANK] = Ratio(6667, 100)
    /\ \E t \in DOMAIN shipment_out.type_counts :
          shipment_out.percentage[t] = Ratio(3333, 100)
(***************************************************************************)
(* Claims about the exclusion mask.                                        *)
(***************************************************************************)
\* The records the mask excludes, and those it keeps.
Excluded == {i \in 1..Len(df.rows) : ~exclude_swi_mask[i]}

Kept == {i \in 1..Len(df.rows) : exclude_swi_mask[i]}

\* No excluded record is in a mask or a count of the delivery analysis: the
\* counts are those of the kept records alone.
DeliveryCountsKeptOnly ==
    DeliveryRan =>
        /\ \A i \in Excluded :
              /\ ~delivery_out.valid_mask[i]
              /\ ~delivery_out.on_time_mask[i]
              /\ ~delivery_out.late_mask[i]
        /\ delivery_out.status = "ok" =>
              /\ delivery_out.total_valid =
                    Cardinality({i \in Kept : DueConv[i] # NaT /\ SignConv[i] # NaT})
              /\ delivery_out.on_time_count + delivery_out.late_count
                    = delivery_out.total_valid
              /\ \A k \in 1..Len(delivery_out.late_details) :
                    delivery_out.late_details[k].index \in Kept

\* No excluded record is in a city count of the area analysis, (未知) included:
\* the counts are those of the kept records and add up to their number.
AreaCountsKeptOnly ==
    area_out.status = "ok" =>
        /\ area_out.included = Kept
        /\ DOMAIN area_out.city_of = Kept
        /\ \A c \in DOMAIN area_out.city_counts :
              area_out.city_counts[c] =
                  Cardinality({i \in Kept : area_out.city_of[i] = c})
        /\ area_out.total_records = Cardinality(Kept)

\* No excluded record is in the detail rows or in a trip summary of the loading
\* analysis.
LoadingRowsKeptOnly ==
    loading_out.status = "ok" =>
        /\ \A k \in 1..Len(loading_out.included) : loading_out.included[k] \in Kept
        /\ \A k \in 1..Len(loading_out.detail) : loading_out.detail[k].index \in Kept
        /\ \A t \in 1..Len(loading_out.trip_summary) :
              loading_out.trip_summary[t].members \subseteq Kept

\* C21: in every state the three analyses have counted kept records only, and
\* no step of an analysis changes the input table or the mask.
C21_ExcludedNeverCounted ==
    /\ [](DeliveryCountsKeptOnly /\ AreaCountsKeptOnly /\ LoadingRowsKeptOnly)
    /\ [][df' = df /\ exclude_swi_mask' = exclude_swi_mask]_vars

\* C21 witness: the three analyses ran on a table of two records, the first
\* excluded though late and of a known region; each counted the second alone.
C21_Witness ==
    /\ Len(df.rows) = 2
    /\ exclude_swi_mask = <<FALSE, TRUE>>
    /\ DueConv[1] # NaT /\ SignConv[1].day > DueConv[1].day
    /\ delivery_out.status = "ok"
    /\ delivery_out.total_valid = 1
    /\ area_out.status = "ok"
    /\ area_out.total_records = 1
    /\ loading_out.status = "ok"
    /\ loading_out.included = <<2>>

(***************************************************************************)
(* Claims about the column-settings tab.                                   *)
(***************************************************************************)
\* After a run that reached the tabs, the mapping of the data-analysis tab is
\* smart_column_detector's result for the table's columns, and so are the
\* columns the sidebar filters read.
FinalMappingIsDetected ==
    main_status.at = "analysed" =>
        /\ final_column_mapping = smart_column_detector(df_cols)
        /\ final_column_mapping = column_mapping
        /\ SidebarFilterColumns(final_column_mapping)
              = SidebarFilterColumns(smart_column_detector(df_cols))

\* A run with the same table leaves the mapping of the data-analysis tab as it
\* was, whatever select boxes were changed.
FinalMappingKept ==
    (main_status.at = "analysed" /\ main_status'.at = "analysed" /\ df_cols' = df_cols)
        => final_column_mapping' = final_column_mapping

\* C22: the column mapping used by the data-analysis tab is the automatically
\* detected mapping: whatever the user selects in the column-settings tab
\* ("(不使用)" or another column for a role included), final_column_mapping
\* equals smart_column_detector's result and does not change.
C22_AnalysisUsesDetectedMapping ==
    /\ [](FinalMappingIsDetected)
    /\ [][FinalMappingKept]_vars

\* The user has chosen the due-date column for the shipment type and the
\* selections returned by the tab differ from the detected mapping, which the
\* data-analysis tab uses all the same.
C22_Witness ==
    /\ main_status.at = "analysed"
    /\ column_mapping["ship_type"] = H_SHIP_TYPE
    /\ user_mapping["ship_type"] = H_DUE
    /\ user_mapping # column_mapping
    /\ final_column_mapping = column_mapping
====
